---- MODULE Spec2Model ----
(***************************************************************************)
(* Model of the ankityping typing engine (core/typing_engine.py).          *)
(*                                                                         *)
(* Strings are sequences of code points.  A CharacterInfo slot is modelled *)
(* by its state only: its char is target_text[i] and its position is i.    *)
(* Python indexes from 0, TLA+ sequences from 1: current_position keeps    *)
(* the Python value, so the slot "at current_position" is                  *)
(* characters[current_position + 1].                                       *)
(***************************************************************************)
EXTENDS Integers, Sequences, FiniteSets, TLC

VARIABLES
    target_text,        \* TypingEngine.target_text
    typed_text,         \* TypingEngine.typed_text
    current_position,   \* TypingEngine.current_position
    error_count,        \* TypingEngine.error_count
    is_complete,        \* TypingEngine.is_complete
    characters,         \* TypingEngine._characters (the state of each slot)
    result,             \* the TypingResult returned by the last process_input
    fed,                \* scripted run: number of target characters fed so far
    erased,             \* scripted run: number of backspaces fed after them
    hint_target_text,   \* HintManager.target_text
    hint_level,         \* HintManager.hint_level
    _word_boundaries,   \* HintManager._word_boundaries
    hint,               \* the value returned by the last get_hint
    cycled,             \* the value returned by the last cycle_hint_level
    boundary,           \* the value returned by the last
                        \* get_current_word_boundary
    session,            \* StatsCollector.session
    _is_running,        \* StatsCollector._is_running
    now,                \* the clock read by time.time(), in seconds
    score,              \* the value returned by the last calculate_final_score
    practice_stats,     \* the PracticeStats of the last _finish_practice
    rating,             \* the value returned by the last _calculate_rating
    returned_accuracy,  \* the value returned by the last
                        \* TypingEngine.get_accuracy
    submitted,          \* the rating last handed to answer_card_and_next
    is_practice_active, \* TypingDialog.is_practice_active
    _finishing,         \* TypingDialog._finishing
    card_id,            \* TypingDialog.card_data.card_id
    answers,            \* the cards handed to answer_card_and_next, in order
    popup,              \* _finish_practice waits in its completion popup
    key_seen,           \* a key event has passed the guard of keyPressEvent
                        \* since the card was loaded
    input_config,       \* InputProcessor.config
    user_input,         \* the user_input of the last InputProcessor call
    expected_text,      \* its expected_text
    processed,          \* the tuple it returned
    processing_config,  \* FieldProcessor.config
    field_content,      \* the content of the last process_field_content
    cleaned             \* the text it returned

vars == <<target_text, typed_text, current_position, error_count,
          is_complete, characters, result, fed, erased,
          hint_target_text, hint_level, _word_boundaries, hint, cycled,
          boundary, session, _is_running, now, score, practice_stats,
          rating, returned_accuracy, submitted, is_practice_active,
          _finishing, card_id, answers, popup, key_seen, input_config,
          user_input,
          expected_text, processed, processing_config, field_content,
          cleaned>>

hint_manager == <<hint_target_text, hint_level, _word_boundaries, hint, cycled,
                  boundary>>

stats_collector == <<session, _is_running, now>>

review == <<score, practice_stats, rating, returned_accuracy,
           submitted>>

dialog == <<is_practice_active, _finishing, card_id, answers, popup,
           key_seen>>

input_processor == <<input_config, user_input, expected_text, processed>>

field_processor == <<processing_config, field_content, cleaned>>

utils == <<input_processor, field_processor>>

engine == <<target_text, typed_text, current_position, error_count,
            is_complete, characters>>

-----------------------------------------------------------------------------
(* Bounds of the model *)

MaxLen == 3
MaxErrors == 2

\* most hints counted and latest clock reading of a modelled session
MaxHints == 2
MaxTime == 2

-----------------------------------------------------------------------------
(* Code points *)

BACKSPACE == 8
NEWLINE == 10
SPACE == 32

\* the letter "a", used in target texts
Letters == {97}

\* ord(input_char) < 32 is the engine's test for a control character
FIRST_PRINTABLE == 32

TargetAlphabet == {NEWLINE, SPACE} \cup Letters

RECURSIVE StringsUpTo(_)
StringsUpTo(n) ==
    IF n = 0 THEN {<<>>}
    ELSE LET shorter == StringsUpTo(n - 1)
         IN  shorter \cup {Append(s, c) : s \in {t \in shorter : Len(t) = n - 1},
                                          c \in TargetAlphabet}

Targets == StringsUpTo(MaxLen)

\* the input events handed to process_input: the empty string, backspace,
\* another control character, printable characters ("b" is in no target),
\* pasted text, and the upper-case form of each target letter
InputEvents ==
    {<<>>, <<BACKSPACE>>, <<NEWLINE>>, <<SPACE>>, <<98>>, <<97, 98>>,
     <<BACKSPACE, BACKSPACE>>} \cup {<<c>> : c \in Letters}
                               \cup {<<c - 32>> : c \in Letters}

-----------------------------------------------------------------------------
(* CharacterState *)

UNDEFINED == "undefined"
CORRECT == "correct"
CURRENT == "current"
ERROR == "error"

CharacterState == {UNDEFINED, CORRECT, CURRENT, ERROR}

-----------------------------------------------------------------------------
(* TypingResult.  `characters` is a copy of the list, not of the slots: the  *)
(* result shares the CharacterInfo objects with the engine (`live`) until    *)
(* _reset_state builds new ones.  `present` is false before the first call.  *)
(* `raised` names the exception the call ended with; the engine has no raise *)
(* statement, so every call returns normally.                                *)

NoResult ==
    [is_correct |-> FALSE, is_complete |-> FALSE, error_occurred |-> FALSE,
     typed_text |-> <<>>, current_position |-> 0, characters |-> <<>>,
     live |-> FALSE, present |-> FALSE, raised |-> "none"]

\* _create_result reads the engine fields after the handler has updated them
_create_result(ic, comp, eo) ==
    result' = [is_correct |-> ic, is_complete |-> comp, error_occurred |-> eo,
               typed_text |-> typed_text',
               current_position |-> current_position',
               characters |-> characters',
               live |-> TRUE, present |-> TRUE, raised |-> "none"]

\* a slot list mutated in place, or replaced, outside process_input
ResultSeesSlots ==
    result' = IF result.live THEN [result EXCEPT !.characters = characters']
              ELSE result

ResultLosesSlots == result' = [result EXCEPT !.live = FALSE]

-----------------------------------------------------------------------------
(* Construction and full reset *)

_initialize_characters(t) ==
    [i \in 1..Len(t) |-> IF i = 1 THEN CURRENT ELSE UNDEFINED]

\* the fields _reset_state assigns, for the target text t
\* variant: error_count survives the full reset
_reset_state_KeepsErrors(t) ==
    /\ typed_text' = <<>>
    /\ current_position' = 0
    /\ error_count' = error_count
    /\ is_complete' = FALSE
    /\ characters' = _initialize_characters(t)

_reset_state(t) ==
    /\ typed_text' = <<>>
    /\ current_position' = 0
    /\ error_count' = 0
    /\ is_complete' = FALSE
    /\ characters' = _initialize_characters(t)

\* TypingEngine(t), before any call
engine_init(t) ==
    /\ target_text = t
    /\ typed_text = <<>>
    /\ current_position = 0
    /\ error_count = 0
    /\ is_complete = FALSE
    /\ characters = _initialize_characters(t)
    /\ result = NoResult
    /\ fed = 0
    /\ erased = 0

-----------------------------------------------------------------------------
(* process_input and its handlers *)

\* variant: completion tested with > instead of >=
_handle_correct_input_StrictEnd(input_char) ==
    /\ typed_text' = typed_text \o input_char
    /\ current_position' = current_position + 1
    /\ LET pos == current_position + 1
           c1 == IF pos > 0
                 THEN [characters EXCEPT ![pos] = CORRECT]
                 ELSE characters
           c2 == IF pos < Len(characters)
                 THEN [c1 EXCEPT ![pos + 1] = CURRENT]
                 ELSE c1
       IN  characters' = c2
    /\ is_complete' = (current_position + 1 > Len(target_text))
    /\ UNCHANGED error_count
    /\ _create_result(TRUE, is_complete', FALSE)

\* variant: the slot after the typed one is not marked Current
_handle_correct_input_NoCurrent(input_char) ==
    /\ typed_text' = typed_text \o input_char
    /\ current_position' = current_position + 1
    /\ characters' = [characters EXCEPT ![current_position + 1] = CORRECT]
    /\ is_complete' = (current_position + 1 >= Len(target_text))
    /\ UNCHANGED error_count
    /\ _create_result(TRUE, is_complete', FALSE)

_handle_correct_input(input_char) ==
    /\ typed_text' = typed_text \o input_char
    /\ current_position' = current_position + 1
    /\ LET pos == current_position + 1
           c1 == IF pos > 0
                 THEN [characters EXCEPT ![pos] = CORRECT]
                 ELSE characters
           c2 == IF pos < Len(characters)
                 THEN [c1 EXCEPT ![pos + 1] = CURRENT]
                 ELSE c1
       IN  characters' = c2
    /\ is_complete' = (current_position + 1 >= Len(target_text))
    /\ UNCHANGED error_count
    /\ _create_result(TRUE, is_complete', FALSE)

\* variant: the wrong character is appended to typed_text
_handle_incorrect_input_Appends(input_char) ==
    /\ error_count < MaxErrors
    /\ error_count' = error_count + 1
    /\ typed_text' = typed_text \o input_char
    /\ characters' = IF current_position < Len(characters)
                     THEN [characters EXCEPT ![current_position + 1] = ERROR]
                     ELSE characters
    /\ UNCHANGED <<current_position, is_complete>>
    /\ _create_result(FALSE, FALSE, TRUE)

_handle_incorrect_input(input_char) ==
    /\ error_count < MaxErrors
    /\ error_count' = error_count + 1
    /\ characters' = IF current_position < Len(characters)
                     THEN [characters EXCEPT ![current_position + 1] = ERROR]
                     ELSE characters
    /\ UNCHANGED <<typed_text, current_position, is_complete>>
    /\ _create_result(FALSE, FALSE, TRUE)

\* variant: the slot left behind keeps its state
_handle_backspace_KeepsAhead ==
    IF current_position = 0
    THEN /\ UNCHANGED <<typed_text, current_position, error_count,
                        is_complete, characters>>
         /\ _create_result(FALSE, FALSE, FALSE)
    ELSE /\ current_position' = current_position - 1
         /\ typed_text' = IF typed_text # <<>>
                          THEN SubSeq(typed_text, 1, Len(typed_text) - 1)
                          ELSE typed_text
         /\ characters' = [characters EXCEPT ![current_position] = CURRENT]
         /\ UNCHANGED <<error_count, is_complete>>
         /\ _create_result(TRUE, FALSE, FALSE)

\* variant: typed_text is not truncated
_handle_backspace_KeepsTyped ==
    IF current_position = 0
    THEN /\ UNCHANGED <<typed_text, current_position, error_count,
                        is_complete, characters>>
         /\ _create_result(FALSE, FALSE, FALSE)
    ELSE /\ current_position' = current_position - 1
         /\ LET pos == current_position - 1
                c1 == IF pos < Len(characters)
                      THEN [characters EXCEPT ![pos + 1] = CURRENT]
                      ELSE characters
                c2 == IF pos + 1 < Len(characters)
                      THEN [c1 EXCEPT ![pos + 2] = UNDEFINED]
                      ELSE c1
            IN  characters' = c2
         /\ UNCHANGED <<typed_text, error_count, is_complete>>
         /\ _create_result(TRUE, FALSE, FALSE)

_handle_backspace ==
    IF current_position = 0
    THEN /\ UNCHANGED <<typed_text, current_position, error_count,
                        is_complete, characters>>
         /\ _create_result(FALSE, FALSE, FALSE)
    ELSE /\ current_position' = current_position - 1
         /\ typed_text' = IF typed_text # <<>>
                          THEN SubSeq(typed_text, 1, Len(typed_text) - 1)
                          ELSE typed_text
         /\ LET pos == current_position - 1
                c1 == IF pos < Len(characters)
                      THEN [characters EXCEPT ![pos + 1] = CURRENT]
                      ELSE characters
                c2 == IF pos + 1 < Len(characters)
                      THEN [c1 EXCEPT ![pos + 2] = UNDEFINED]
                      ELSE c1
            IN  characters' = c2
         /\ UNCHANGED <<error_count, is_complete>>
         /\ _create_result(TRUE, FALSE, FALSE)

\* variant: backspace is handled before the completion test
process_input_BackspaceFirst(input_char) ==
    IF input_char = <<BACKSPACE>>
    THEN _handle_backspace
    ELSE IF is_complete
    THEN /\ UNCHANGED <<typed_text, current_position, error_count,
                        is_complete, characters>>
         /\ _create_result(FALSE, TRUE, FALSE)
    ELSE IF Len(input_char) # 1 \/ input_char[1] < FIRST_PRINTABLE
    THEN /\ UNCHANGED <<typed_text, current_position, error_count,
                        is_complete, characters>>
         /\ _create_result(FALSE, FALSE, FALSE)
    ELSE IF current_position >= Len(target_text)
    THEN /\ UNCHANGED <<typed_text, current_position, error_count,
                        is_complete, characters>>
         /\ _create_result(FALSE, FALSE, FALSE)
    ELSE IF input_char[1] = target_text[current_position + 1]
    THEN _handle_correct_input(input_char)
    ELSE _handle_incorrect_input(input_char)

\* variant: only the length of the input is tested, not its code point
process_input_LengthOnly(input_char) ==
    IF is_complete
    THEN /\ UNCHANGED <<typed_text, current_position, error_count,
                        is_complete, characters>>
         /\ _create_result(FALSE, TRUE, FALSE)
    ELSE IF input_char = <<BACKSPACE>>
    THEN _handle_backspace
    ELSE IF Len(input_char) # 1
    THEN /\ UNCHANGED <<typed_text, current_position, error_count,
                        is_complete, characters>>
         /\ _create_result(FALSE, FALSE, FALSE)
    ELSE IF current_position >= Len(target_text)
    THEN /\ UNCHANGED <<typed_text, current_position, error_count,
                        is_complete, characters>>
         /\ _create_result(FALSE, FALSE, FALSE)
    ELSE IF input_char[1] = target_text[current_position + 1]
    THEN _handle_correct_input(input_char)
    ELSE _handle_incorrect_input(input_char)

\* variant: an input that is not a single character raises
process_input_FailFast(input_char) ==
    IF Len(input_char) # 1
    THEN /\ UNCHANGED <<typed_text, current_position, error_count,
                        is_complete, characters>>
         /\ result' = [NoResult EXCEPT !.raised = "InvalidArgument"]
    ELSE IF is_complete
    THEN /\ UNCHANGED <<typed_text, current_position, error_count,
                        is_complete, characters>>
         /\ _create_result(FALSE, TRUE, FALSE)
    ELSE IF input_char = <<BACKSPACE>>
    THEN _handle_backspace
    ELSE IF input_char[1] < FIRST_PRINTABLE
    THEN /\ UNCHANGED <<typed_text, current_position, error_count,
                        is_complete, characters>>
         /\ _create_result(FALSE, FALSE, FALSE)
    ELSE IF current_position >= Len(target_text)
    THEN /\ UNCHANGED <<typed_text, current_position, error_count,
                        is_complete, characters>>
         /\ _create_result(FALSE, FALSE, FALSE)
    ELSE IF input_char[1] = target_text[current_position + 1]
    THEN _handle_correct_input(input_char)
    ELSE _handle_incorrect_input(input_char)

process_input(input_char) ==
    IF is_complete
    THEN /\ UNCHANGED <<typed_text, current_position, error_count,
                        is_complete, characters>>
         /\ _create_result(FALSE, TRUE, FALSE)
    ELSE IF input_char = <<BACKSPACE>>
    THEN _handle_backspace
    ELSE IF Len(input_char) # 1 \/ input_char[1] < FIRST_PRINTABLE
    THEN /\ UNCHANGED <<typed_text, current_position, error_count,
                        is_complete, characters>>
         /\ _create_result(FALSE, FALSE, FALSE)
    ELSE IF current_position >= Len(target_text)
    THEN /\ UNCHANGED <<typed_text, current_position, error_count,
                        is_complete, characters>>
         /\ _create_result(FALSE, FALSE, FALSE)
    ELSE IF input_char[1] = target_text[current_position + 1]
    THEN _handle_correct_input(input_char)
    ELSE _handle_incorrect_input(input_char)

-----------------------------------------------------------------------------
(* reset and set_target_text *)

\* variant: the scan tests the character at word_start, not the one before
RECURSIVE word_start_scan_OffByOne(_)
word_start_scan_OffByOne(word_start) ==
    IF word_start > 0 /\ target_text[word_start + 1] # SPACE
    THEN word_start_scan_OffByOne(word_start - 1)
    ELSE word_start

\* the backward scan of _reset_current_word: word_start is a Python index
RECURSIVE word_start_scan(_)
word_start_scan(word_start) ==
    IF word_start > 0 /\ target_text[word_start] # SPACE
    THEN word_start_scan(word_start - 1)
    ELSE word_start

\* variant: the slot at the word start is not marked Current
_reset_current_word_NoCurrent ==
    IF current_position = 0
    THEN UNCHANGED <<typed_text, current_position, characters>>
    ELSE LET word_start == word_start_scan(current_position - 1)
         IN  /\ typed_text' = SubSeq(typed_text, 1, word_start)
             /\ current_position' = word_start
             /\ characters' =
                    [i \in 1..Len(characters) |->
                        IF i > word_start THEN UNDEFINED
                        ELSE characters[i]]

_reset_current_word ==
    IF current_position = 0
    THEN UNCHANGED <<typed_text, current_position, characters>>
    ELSE LET word_start == word_start_scan(current_position - 1)
         IN  /\ typed_text' = SubSeq(typed_text, 1, word_start)
             /\ current_position' = word_start
             /\ characters' =
                    [i \in 1..Len(characters) |->
                        IF i = word_start + 1 THEN CURRENT
                        ELSE IF i > word_start THEN UNDEFINED
                        ELSE characters[i]]

\* variant: the word reset also clears error_count
reset_WordClearsErrors(mode) ==
    IF mode = "sentence"
    THEN /\ _reset_state(target_text)
         /\ ResultLosesSlots
    ELSE IF mode = "word"
    THEN /\ _reset_current_word
         /\ error_count' = 0
         /\ UNCHANGED is_complete
         /\ ResultSeesSlots
    ELSE UNCHANGED <<typed_text, current_position, error_count,
                     is_complete, characters, result>>

reset(mode) ==
    IF mode = "sentence"
    THEN /\ _reset_state(target_text)
         /\ ResultLosesSlots
    ELSE IF mode = "word"
    THEN /\ _reset_current_word
         /\ UNCHANGED <<error_count, is_complete>>
         /\ ResultSeesSlots
    ELSE UNCHANGED <<typed_text, current_position, error_count,
                     is_complete, characters, result>>

set_target_text(t) ==
    /\ target_text' = t
    /\ _reset_state(t)
    /\ ResultLosesSlots

-----------------------------------------------------------------------------
(* HintManager (core/hint.py) *)

\* HintLevel
NONE == "none"
CURRENT_CHARACTER == "character"
CURRENT_WORD == "word"
FULL_SENTENCE == "sentence"

HintLevel == {NONE, CURRENT_CHARACTER, CURRENT_WORD, FULL_SENTENCE}

\* the list `levels` of get_next_hint_level
levels == <<NONE, CURRENT_CHARACTER, CURRENT_WORD, FULL_SENTENCE>>

\* Python's None, passed as the level argument of get_hint
PY_NONE == "None"

LBRACKET == 91
RBRACKET == 93

\* the no-break space, "\xa0"
NBSP == 160

\* str.isspace() on the code points below 256
IsSpace(c) == c \in {9, 10, 11, 12, 13, 28, 29, 30, 31, 32, 133, NBSP}

Min2(a, b) == IF a < b THEN a ELSE b
Max2(a, b) == IF a > b THEN a ELSE b

\* Python slices s[:hi] and s[lo:], negative indexes counting from the end
PyIndex(n, i) == IF i < 0 THEN Max2(n + i, 0) ELSE Min2(i, n)
PySliceTo(s, hi) == SubSeq(s, 1, PyIndex(Len(s), hi))
PySliceFrom(s, lo) == SubSeq(s, PyIndex(Len(s), lo) + 1, Len(s))
PySlice(s, lo, hi) == SubSeq(s, PyIndex(Len(s), lo) + 1, PyIndex(Len(s), hi))

\* the loop of _find_word_boundaries over t from Python index i on
RECURSIVE find_word_boundaries_from(_, _, _, _, _)
find_word_boundaries_from(t, i, boundaries, word_start, in_word) ==
    IF i >= Len(t)
    THEN IF in_word
         THEN Append(boundaries, <<word_start, Len(t)>>)
         ELSE boundaries
    ELSE IF IsSpace(t[i + 1])
    THEN IF in_word
         THEN find_word_boundaries_from(
                  t, i + 1, Append(boundaries, <<word_start, i>>),
                  word_start, FALSE)
         ELSE find_word_boundaries_from(
                  t, i + 1, boundaries, word_start, in_word)
    ELSE IF ~in_word
    THEN find_word_boundaries_from(t, i + 1, boundaries, i, TRUE)
    ELSE find_word_boundaries_from(t, i + 1, boundaries, word_start, in_word)

_find_word_boundaries(t) == find_word_boundaries_from(t, 0, <<>>, 0, FALSE)

\* variant: a position outside every word is its own empty span
get_current_word_boundary_NoNext(position) ==
    LET inside == {k \in 1..Len(_word_boundaries) :
                      /\ position >= _word_boundaries[k][1]
                      /\ position < _word_boundaries[k][2]}
        first(S) == CHOOSE k \in S : \A j \in S : k <= j
    IN  IF inside # {} THEN _word_boundaries[first(inside)]
        ELSE <<position, position>>

get_current_word_boundary(position) ==
    LET inside == {k \in 1..Len(_word_boundaries) :
                      /\ position >= _word_boundaries[k][1]
                      /\ position < _word_boundaries[k][2]}
        later  == {k \in 1..Len(_word_boundaries) :
                      position < _word_boundaries[k][1]}
        first(S) == CHOOSE k \in S : \A j \in S : k <= j
    IN  IF inside # {} THEN _word_boundaries[first(inside)]
        ELSE IF later # {} THEN _word_boundaries[first(later)]
        ELSE <<position, position>>

\* HintInfo; `present` is false for the return value None
NoHint ==
    [present |-> FALSE, level |-> NONE, content |-> <<>>, position |-> 0,
     word_start |-> 0, word_end |-> 0]

HintInfo(level, content, position, word_start, word_end) ==
    [present |-> TRUE, level |-> level, content |-> content,
     position |-> position, word_start |-> word_start, word_end |-> word_end]

\* variant: the sentence hint repeats the current character after the bracket
get_hint_SentenceRepeats(position, level_arg) ==
    LET level == IF level_arg = PY_NONE THEN hint_level ELSE level_arg
        t == hint_target_text
    IN  hint' =
          IF level = NONE THEN NoHint
          ELSE IF position >= Len(t) THEN NoHint
          ELSE LET wb == get_current_word_boundary(position)
                   word_start == wb[1]
                   word_end == wb[2]
               IN  IF level = CURRENT_CHARACTER
                   THEN HintInfo(CURRENT_CHARACTER, <<t[position + 1]>>,
                                 position, word_start, word_end)
                   ELSE IF level = CURRENT_WORD
                   THEN LET word_text == PySlice(t, word_start, word_end)
                            current_char_pos == position - word_start
                        IN  HintInfo(CURRENT_WORD,
                                PySliceTo(word_text, current_char_pos)
                                    \o <<LBRACKET, t[position + 1], RBRACKET>>
                                    \o PySliceFrom(word_text,
                                                   current_char_pos + 1),
                                position, word_start, word_end)
                   ELSE IF level = FULL_SENTENCE
                   THEN HintInfo(FULL_SENTENCE,
                            PySliceTo(t, position)
                                \o <<LBRACKET, t[position + 1], RBRACKET>>
                                \o PySliceFrom(t, position),
                            position, word_start, word_end)
                   ELSE NoHint

get_hint(position, level_arg) ==
    LET level == IF level_arg = PY_NONE THEN hint_level ELSE level_arg
        t == hint_target_text
    IN  hint' =
          IF level = NONE THEN NoHint
          ELSE IF position >= Len(t) THEN NoHint
          ELSE LET wb == get_current_word_boundary(position)
                   word_start == wb[1]
                   word_end == wb[2]
               IN  IF level = CURRENT_CHARACTER
                   THEN HintInfo(CURRENT_CHARACTER, <<t[position + 1]>>,
                                 position, word_start, word_end)
                   ELSE IF level = CURRENT_WORD
                   THEN LET word_text == PySlice(t, word_start, word_end)
                            current_char_pos == position - word_start
                        IN  HintInfo(CURRENT_WORD,
                                PySliceTo(word_text, current_char_pos)
                                    \o <<LBRACKET, t[position + 1], RBRACKET>>
                                    \o PySliceFrom(word_text,
                                                   current_char_pos + 1),
                                position, word_start, word_end)
                   ELSE IF level = FULL_SENTENCE
                   THEN HintInfo(FULL_SENTENCE,
                            PySliceTo(t, position)
                                \o <<LBRACKET, t[position + 1], RBRACKET>>
                                \o PySliceFrom(t, position + 1),
                            position, word_start, word_end)
                   ELSE NoHint

\* 0-based index of hint_level in `levels`
levels_index(level) == CHOOSE k \in 0..(Len(levels) - 1) : levels[k + 1] = level

\* variant: the level after the last wraps around to the first
get_next_hint_level_Wraps ==
    LET current_index == levels_index(hint_level)
        next_index == (current_index + 1) % Len(levels)
    IN  levels[next_index + 1]

get_next_hint_level ==
    LET current_index == levels_index(hint_level)
        next_index == Min2(current_index + 1, Len(levels) - 1)
    IN  levels[next_index + 1]

set_hint_level(level) == hint_level' = level

cycle_hint_level ==
    /\ hint_level' = get_next_hint_level
    /\ cycled' = hint_level'

\* HintManager.reset
hint_reset == hint_level' = NONE

\* no call of get_current_word_boundary has returned yet
NoBoundary == <<>>

\* HintManager(t), before any call
hint_init(t) ==
    /\ hint_target_text = t
    /\ hint_level = NONE
    /\ _word_boundaries = _find_word_boundaries(t)
    /\ hint = NoHint
    /\ cycled = PY_NONE
    /\ boundary = NoBoundary

-----------------------------------------------------------------------------
(* StatsCollector and PracticeSession (core/stats.py) *)

\* StatsCollector.session is None
NoSession ==
    [present |-> FALSE, start_time |-> 0, ended |-> FALSE, end_time |-> 0,
     error_count |-> 0, hint_count |-> 0, character_count |-> 0,
     word_count |-> 0]

\* PracticeSession(start_time, character_count, word_count); `ended` is false
\* while end_time is None
PracticeSession(start_time, character_count, word_count) ==
    [present |-> TRUE, start_time |-> start_time, ended |-> FALSE,
     end_time |-> 0, error_count |-> 0, hint_count |-> 0,
     character_count |-> character_count, word_count |-> word_count]

\* len(t.split()) counted from Python index i on; in_word tells whether the
\* character before i belongs to a word
RECURSIVE split_count_from(_, _, _)
split_count_from(t, i, in_word) ==
    IF i >= Len(t) THEN 0
    ELSE IF IsSpace(t[i + 1]) THEN split_count_from(t, i + 1, FALSE)
    ELSE (IF in_word THEN 0 ELSE 1) + split_count_from(t, i + 1, TRUE)

split_count(t) == split_count_from(t, 0, FALSE)

\* variant: the counters of the session before are carried over
start_session_KeepsCounters(t) ==
    /\ session' = [PracticeSession(now, Len(t), split_count(t)) EXCEPT
                      !.error_count = session.error_count,
                      !.hint_count = session.hint_count]
    /\ _is_running' = TRUE

start_session(t) ==
    /\ session' = PracticeSession(now, Len(t), split_count(t))
    /\ _is_running' = TRUE

\* variant: every call records the clock
end_session_Always ==
    IF session.present
    THEN /\ session' = [session EXCEPT !.ended = TRUE, !.end_time = now]
         /\ _is_running' = FALSE
    ELSE UNCHANGED <<session, _is_running>>

end_session ==
    IF session.present /\ _is_running
    THEN /\ session' = [session EXCEPT !.ended = TRUE, !.end_time = now]
         /\ _is_running' = FALSE
    ELSE UNCHANGED <<session, _is_running>>

\* variant: an error also costs a hint
increment_error_count_Both ==
    /\ session.present => session.error_count < MaxErrors
    /\ IF session.present
       THEN session' = [session EXCEPT !.error_count = @ + 1,
                                       !.hint_count = @ + 1]
       ELSE UNCHANGED session
    /\ UNCHANGED _is_running

increment_error_count ==
    /\ session.present => session.error_count < MaxErrors
    /\ IF session.present
       THEN session' = [session EXCEPT !.error_count = @ + 1]
       ELSE UNCHANGED session
    /\ UNCHANGED _is_running

increment_hint_count ==
    /\ session.present => session.hint_count < MaxHints
    /\ IF session.present
       THEN session' = [session EXCEPT !.hint_count = @ + 1]
       ELSE UNCHANGED session
    /\ UNCHANGED _is_running

\* variant: reset drops the session and leaves the running flag
stats_reset_KeepsRunning ==
    /\ session' = NoSession
    /\ UNCHANGED _is_running

\* StatsCollector.reset
stats_reset ==
    /\ session' = NoSession
    /\ _is_running' = FALSE

\* PracticeSession.duration_seconds of an existing session
duration_seconds ==
    IF ~session.ended
    THEN now - session.start_time
    ELSE session.end_time - session.start_time

\* StatsCollector.get_elapsed_time
get_elapsed_time == IF ~session.present THEN 0 ELSE duration_seconds

get_error_count == IF ~session.present THEN 0 ELSE session.error_count

get_hint_count == IF ~session.present THEN 0 ELSE session.hint_count

-----------------------------------------------------------------------------
(* Python float arithmetic (IEEE 754 binary64, round to nearest, ties to    *)
(* even) on the values calculate_score meets: zero and positive numbers far *)
(* from overflow and underflow.  A natural number of any size is the        *)
(* sequence of its digits in base Base, first digit first, <<>> for zero; a *)
(* float is [m, e] with value m * 2^e, where m is zero or has MANT_BITS     *)
(* binary digits.                                                           *)

MANT_BITS == 53
DIGIT_BITS == 15
Base == 2^DIGIT_BITS

\* the element of a set of one element: The({e : x \in {v}}) is e with x
\* standing for the value of v, which is computed once
The(S) == CHOOSE r \in S : TRUE

RECURSIVE Digits(_)
Digits(n) == IF n = 0 THEN <<>> ELSE Append(Digits(n \div Base), n % Base)

Zeros(k) == IF k <= 0 THEN <<>> ELSE [i \in 1..k |-> 0]

\* a without its leading zero digits
Strip(a) ==
    The({ IF \A i \in 1..Len(x) : x[i] = 0
          THEN <<>>
          ELSE SubSeq(x,
                      CHOOSE i \in 1..Len(x) :
                          x[i] # 0 /\ \A j \in 1..(i - 1) : x[j] = 0,
                      Len(x)) :
          x \in {a} })

\* digit of a with weight Base^k
DigitAt(a, k) == IF k < Len(a) THEN a[Len(a) - k] ELSE 0

BigLess(a, b) ==
    \E x \in {a}, y \in {b} :
        \/ Len(x) < Len(y)
        \/ /\ Len(x) = Len(y)
           /\ \E i \in 1..Len(x) :
                 /\ x[i] < y[i]
                 /\ \A j \in 1..(i - 1) : x[j] = y[j]

\* whether a + b carries into the digit of weight Base^k: a digit below
\* carries, and every digit between passes the carry on
CarryInto(a, b, k) ==
    \E j \in 0..(k - 1) :
        /\ DigitAt(a, j) + DigitAt(b, j) >= Base
        /\ \A i \in (j + 1)..(k - 1) : DigitAt(a, i) + DigitAt(b, i) = Base - 1

BigAdd(a, b) ==
    The({ The({ Strip([i \in 1..(n + 1) |->
                          (DigitAt(x, n + 1 - i) + DigitAt(y, n + 1 - i)
                              + IF CarryInto(x, y, n + 1 - i) THEN 1 ELSE 0)
                                  % Base]) :
                n \in {Max2(Len(x), Len(y))} }) :
          x \in {a}, y \in {b} })

\* whether a - b borrows from the digit of weight Base^k: a digit below
\* borrows, and every digit between passes the borrow on
BorrowFrom(a, b, k) ==
    \E j \in 0..(k - 1) :
        /\ DigitAt(a, j) < DigitAt(b, j)
        /\ \A i \in (j + 1)..(k - 1) : DigitAt(a, i) = DigitAt(b, i)

\* a - b for a >= b
BigSub(a, b) ==
    The({ Strip([i \in 1..Len(x) |->
                    (DigitAt(x, Len(x) - i) - DigitAt(y, Len(x) - i)
                        - (IF BorrowFrom(x, y, Len(x) - i) THEN 1 ELSE 0)
                        + Base) % Base]) :
          x \in {a}, y \in {b} })

\* a * n for 0 <= n < Base: the low halves of the products of the digits
\* plus their high halves, one digit up
BigMulSmall(a, n) ==
    The({ BigAdd([i \in 1..Len(x) |-> (x[i] * d) % Base],
                 [i \in 1..(Len(x) + 1) |->
                     IF i > Len(x) THEN 0 ELSE (x[i] * d) \div Base]) :
          x \in {a}, d \in {n} })

\* a * b, taking the digits of b from its i-th on into the product so far
RECURSIVE BigMulFrom(_, _, _, _)
BigMulFrom(a, b, i, acc) ==
    IF i > Len(b)
    THEN acc
    ELSE The({ BigMulFrom(a, b, i + 1, next) :
               next \in {BigAdd(IF acc = <<>> THEN <<>> ELSE Append(acc, 0),
                                BigMulSmall(a, b[i]))} })

BigMul(a, b) == The({ BigMulFrom(x, y, 1, <<>>) : x \in {a}, y \in {b} })

\* the value of the digits r, at most two
Small(r) ==
    IF r = <<>> THEN 0
    ELSE IF Len(r) = 1 THEN r[1]
    ELSE r[1] * Base + r[2]

\* the digit d with b * d <= r < b * (d + 1), for r < b * Base and b of one
\* digit or with a first digit of at least Base / 2: the quotient of the
\* first digits of r by the first digit of b is d or at most 2 more
QuotientDigit(r, b) ==
    IF Len(b) = 1
    THEN Small(r) \div b[1]
    ELSE The({ CHOOSE d \in Max2(0, qhat - 2)..qhat :
                   /\ ~BigLess(r, BigMulSmall(b, d))
                   /\ BigLess(r, BigMulSmall(b, d + 1)) :
               qhat \in {Min2(Base - 1,
                              (IF Len(r) < Len(b) THEN 0
                               ELSE Small(SubSeq(r, 1, Len(r) - Len(b) + 1)))
                                  \div b[1])} })

\* <<quotient, remainder>> st of a number by b # 0, after one more digit n
\* of the number
BigDivDigit(b, st, n) ==
    The({ The({ <<Strip(Append(st[1], d)), BigSub(r, BigMulSmall(b, d))>> :
                d \in {QuotientDigit(r, b)} }) :
          r \in {Strip(Append(st[2], n))} })

\* <<quotient, remainder>> st of a number by b # 0, after the lo-th to
\* hi-th digits of a more, those of the first half and then those of the
\* second
RECURSIVE BigDivFrom(_, _, _, _, _)
BigDivFrom(a, b, lo, hi, st) ==
    IF lo > hi THEN st
    ELSE IF lo = hi THEN BigDivDigit(b, st, a[lo])
    ELSE The({ BigDivFrom(a, b, (lo + hi) \div 2 + 1, hi, half) :
               half \in {BigDivFrom(a, b, lo, (lo + hi) \div 2, st)} })

\* number of binary digits of a # 0
BitLen(a) ==
    The({ DIGIT_BITS * (Len(x) - 1)
              + (CHOOSE k \in 1..DIGIT_BITS : 2^(k - 1) <= x[1] /\ x[1] < 2^k) :
          x \in {a} })

\* a * 2^s
ShiftLeft(a, s) ==
    The({ IF x = <<>> THEN <<>>
          ELSE BigMulSmall(x, 2^(k % DIGIT_BITS)) \o Zeros(k \div DIGIT_BITS) :
          x \in {a}, k \in {s} })

\* a / 2^s without its fraction
ShiftRight(a, s) ==
    The({ IF Len(x) <= k \div DIGIT_BITS THEN <<>>
          ELSE The({ BigDivFrom(y, <<2^(k % DIGIT_BITS)>>, 1, Len(y),
                                <<<<>>, <<>>>>)[1] :
                     y \in {SubSeq(x, 1, Len(x) - k \div DIGIT_BITS)} }) :
          x \in {a}, k \in {s} })

\* <<quotient, remainder>> of a by b # 0: both are first multiplied by the
\* power of 2 that brings the first digit of b to Base / 2 or more
BigDiv(a, b) ==
    The({ The({ The({ <<qr[1], ShiftRight(qr[2], k)>> :
                      qr \in {BigDivFrom(n, d, 1, Len(n), <<<<>>, <<>>>>)} }) :
                n \in {ShiftLeft(x, k)}, d \in {ShiftLeft(y, k)} }) :
          x \in {a}, y \in {b},
          k \in {(DIGIT_BITS - (BitLen(b) % DIGIT_BITS)) % DIGIT_BITS} })

FZero == [m |-> <<>>, e |-> 0]

\* whether the quotient q of a number by 2^s, with remainder r, is rounded
\* up: r is more than half of 2^s, or half of it and q is odd or the number
\* was a little more (sticky)
RoundsUp(q, r, s, sticky) ==
    \E half \in {ShiftLeft(<<1>>, s - 1)} :
        \/ BigLess(half, r)
        \/ r = half /\ (sticky \/ q[Len(q)] % 2 = 1)

\* m * 2^e with the m that rounding up may have given one digit too many
Normal(m, e) ==
    IF BitLen(m) > MANT_BITS
    THEN [m |-> ShiftRight(m, 1), e |-> e + 1]
    ELSE [m |-> m, e |-> e]

\* x * 2^e of the n > MANT_BITS binary digits of x brought to MANT_BITS
Shorten(x, n, e, sticky) ==
    The({ The({ The({ Normal(m, e + (n - MANT_BITS)) :
                      m \in {IF RoundsUp(q, r, n - MANT_BITS, sticky)
                             THEN BigAdd(q, <<1>>) ELSE q} }) :
                r \in {BigSub(x, ShiftLeft(q, n - MANT_BITS))} }) :
          q \in {ShiftRight(x, n - MANT_BITS)} })

\* the float nearest to a * 2^e, or to a little more than that when sticky
Round(a, e, sticky) ==
    The({ IF x = <<>> THEN FZero
          ELSE The({ IF n <= MANT_BITS
                     THEN [m |-> ShiftLeft(x, MANT_BITS - n),
                           e |-> e - (MANT_BITS - n)]
                     ELSE Shorten(x, n, e, sticky) :
                     n \in {BitLen(x)} }) :
          x \in {a} })

\* float(n) of an int n >= 0
FromInt(n) == Round(Digits(n), 0, FALSE)

FLess(x, y) ==
    \E a \in {x}, b \in {y} :
        IF b.m = <<>> THEN FALSE
        ELSE IF a.m = <<>> THEN TRUE
        ELSE a.e < b.e \/ (a.e = b.e /\ BigLess(a.m, b.m))

\* min(x, y) of Python
FMin(x, y) == The({ IF FLess(b, a) THEN b ELSE a : a \in {x}, b \in {y} })

FMul(x, y) ==
    The({ Round(BigMul(a.m, b.m), a.e + b.e, FALSE) : a \in {x}, b \in {y} })

\* x / y for y # 0
FDiv(x, y) ==
    The({ IF a.m = <<>> THEN FZero
          ELSE The({ Round(qr[1], a.e - b.e - (MANT_BITS + 2), qr[2] # <<>>) :
                     qr \in {BigDiv(ShiftLeft(a.m, MANT_BITS + 2), b.m)} }) :
          a \in {x}, b \in {y} })

\* the digits of a * 2^(a.e - e) plus or minus those of b * 2^(b.e - e)
FAdd(x, y) ==
    The({ IF a.m = <<>> THEN b
          ELSE IF b.m = <<>> THEN a
          ELSE The({ Round(BigAdd(ShiftLeft(a.m, a.e - e),
                                  ShiftLeft(b.m, b.e - e)), e, FALSE) :
                     e \in {IF a.e < b.e THEN a.e ELSE b.e} }) :
          a \in {x}, b \in {y} })

\* x - y for x >= y
FSub(x, y) ==
    The({ IF b.m = <<>> THEN a
          ELSE The({ Round(BigSub(ShiftLeft(a.m, a.e - e),
                                  ShiftLeft(b.m, b.e - e)), e, FALSE) :
                     e \in {IF a.e < b.e THEN a.e ELSE b.e} }) :
          a \in {x}, b \in {y} })

\* the value of the digits a, below 2^31
RECURSIVE BigToInt(_)
BigToInt(a) ==
    The({ IF x = <<>> THEN 0
          ELSE Base * BigToInt(SubSeq(x, 1, Len(x) - 1)) + x[Len(x)] :
          x \in {a} })

\* int(x) of a float x >= 0 below 2^31
FTrunc(x) ==
    The({ IF a.m = <<>> THEN 0
          ELSE IF a.e >= 0 THEN BigToInt(ShiftLeft(a.m, a.e))
          ELSE BigToInt(ShiftRight(a.m, 0 - a.e)) :
          a \in {x} })

\* PracticeSession.accuracy
accuracy(s) ==
    IF s.character_count = 0
    THEN FromInt(1)
    ELSE LET correct_chars == s.character_count - s.error_count
         IN  IF correct_chars <= 0
             THEN FZero
             ELSE FDiv(FromInt(correct_chars), FromInt(s.character_count))

\* PracticeSession.words_per_minute of a session lasting d seconds
words_per_minute(s, d) ==
    IF d <= 0
    THEN FZero
    ELSE LET duration_minutes == FDiv(FromInt(d), FromInt(60))
         IN  FDiv(FromInt(s.word_count), duration_minutes)

\* variant: the speed term is not capped at 30
calculate_score_NoSpeedCap(s, d) ==
    LET accuracy_score == FMul(accuracy(s), FromInt(50))
        wpm_target == FromInt(20)
        speed_score ==
            FMul(FDiv(words_per_minute(s, d), wpm_target), FromInt(30))
        hint_penalty == FromInt(Min2(20, s.hint_count * 5))
    IN  The({ The({ Max2(0, Min2(100, int_total)) :
                    int_total \in {IF FLess(sum, hint_penalty)
                                   THEN 0
                                   ELSE FTrunc(FSub(sum, hint_penalty))} }) :
              sum \in {FAdd(accuracy_score, speed_score)} })

\* PracticeSession.calculate_score of a session lasting d seconds
calculate_score(s, d) ==
    LET accuracy_score == FMul(accuracy(s), FromInt(50))
        wpm_target == FromInt(20)
        speed_score ==
            FMin(FromInt(30),
                 FMul(FDiv(words_per_minute(s, d), wpm_target), FromInt(30)))
        hint_penalty == FromInt(Min2(20, s.hint_count * 5))
    IN  The({ The({ Max2(0, Min2(100, int_total)) :
                    int_total \in {IF FLess(sum, hint_penalty)
                                   THEN 0
                                   ELSE FTrunc(FSub(sum, hint_penalty))} }) :
              sum \in {FAdd(accuracy_score, speed_score)} })

\* StatsCollector.get_accuracy
collector_get_accuracy ==
    IF ~session.present THEN FromInt(1) ELSE accuracy(session)

\* StatsCollector.is_running
is_running == _is_running

\* StatsCollector.calculate_final_score
calculate_final_score ==
    IF ~session.present THEN 0 ELSE calculate_score(session, duration_seconds)

\* no value returned yet
NoValue == [present |-> FALSE, value |-> 0]

Returned(v) == [present |-> TRUE, value |-> v]

\* no PracticeStats built yet
NoPracticeStats ==
    [present |-> FALSE, time_seconds |-> 0, error_count |-> 0,
     hint_count |-> 0, score |-> 0]

PracticeStats(time_seconds, errors, hints, score_value) ==
    [present |-> TRUE, time_seconds |-> time_seconds,
     error_count |-> errors, hint_count |-> hints, score |-> score_value]

\* variant: the first bucket does not look at the hints
_calculate_rating_ScoreFirst(stats) ==
    IF stats.error_count = 0
    THEN IF stats.score >= 90 THEN 4
         ELSE IF stats.score >= 80 THEN 3
         ELSE 2
    ELSE IF stats.error_count <= 2 /\ stats.hint_count <= 1 THEN 3
    ELSE IF stats.error_count <= 5 THEN 2
    ELSE 1

\* variant: the bucket of few errors does not look at the hints
_calculate_rating_IgnoresHints(stats) ==
    IF stats.error_count = 0 /\ stats.hint_count = 0
    THEN IF stats.score >= 90 THEN 4
         ELSE IF stats.score >= 80 THEN 3
         ELSE 2
    ELSE IF stats.error_count <= 2 THEN 3
    ELSE IF stats.error_count <= 5 THEN 2
    ELSE 1

\* AnkiIntegration._calculate_rating
_calculate_rating(stats) ==
    IF stats.error_count = 0 /\ stats.hint_count = 0
    THEN IF stats.score >= 90 THEN 4
         ELSE IF stats.score >= 80 THEN 3
         ELSE 2
    ELSE IF stats.error_count <= 2 /\ stats.hint_count <= 1 THEN 3
    ELSE IF stats.error_count <= 5 THEN 2
    ELSE 1

\* no accuracy returned yet
NoAccuracy == [present |-> FALSE, value |-> FZero]

\* variant: the quotient also at position 0
get_accuracy_NoStartCase ==
    LET total_attempts == current_position + error_count
        correct_attempts == current_position - error_count
    IN  IF total_attempts = 0 THEN FromInt(1)
        ELSE IF correct_attempts <= 0 THEN FZero
        ELSE FDiv(FromInt(correct_attempts), FromInt(total_attempts))

\* TypingEngine.get_accuracy; max(0.0, q) of a quotient q <= 0 is 0.0
get_accuracy ==
    IF current_position = 0 THEN FromInt(1)
    ELSE LET total_attempts == current_position + error_count
             correct_attempts == current_position - error_count
         IN  IF total_attempts = 0 THEN FromInt(1)
             ELSE IF correct_attempts <= 0 THEN FZero
             ELSE FDiv(FromInt(correct_attempts), FromInt(total_attempts))

-----------------------------------------------------------------------------
(* The input processor: utils/input_processor.py.  A text is the sequence   *)
(* of its code points.                                                      *)

PERIOD == 46
LPAREN == 40
RPAREN == 41
UPPER_A == 65

\* the flags of InputProcessingConfig that process_input reads
InputConfigs ==
    [handle_punctuation : BOOLEAN, auto_punctuation : BOOLEAN,
     ignore_punctuation_errors : BOOLEAN, handle_whitespace : BOOLEAN,
     ignore_extra_spaces : BOOLEAN, auto_correct_spaces : BOOLEAN,
     case_sensitive : BOOLEAN]

\* InputProcessingConfig()
InputProcessingConfig ==
    [handle_punctuation |-> TRUE, auto_punctuation |-> TRUE,
     ignore_punctuation_errors |-> FALSE, handle_whitespace |-> TRUE,
     ignore_extra_spaces |-> TRUE, auto_correct_spaces |-> TRUE,
     case_sensitive |-> TRUE]

\* . , ! ? ; : ) ] } " '
auto_punctuation_marks == {PERIOD, 44, 33, 63, 59, 58, RPAREN, RBRACKET, 125, 34, 39}

\* . ! ? ; : , ) ] }
space_after_punctuation == {PERIOD, 33, 63, 59, 58, 44, RPAREN, RBRACKET, 125}

\* " ' ( [ { < and what closes them
punctuation_pairs ==
    [c \in {34, 39, LPAREN, LBRACKET, 123, 60} |->
        CASE c = 34 -> 34
          [] c = 39 -> 39
          [] c = LPAREN -> RPAREN
          [] c = LBRACKET -> RBRACKET
          [] c = 123 -> 125
          [] c = 60 -> 62]

\* the look-ahead of _handle_auto_punctuation
LOOK_AHEAD == 10

\* \w of a regular expression, for the characters of ASCII
IsWord(c) == c \in (48..57) \cup (UPPER_A..90) \cup {95} \cup (97..122)

\* re.sub(r'[^\w\s]', '', s)
WithoutPunctuation(s) == SelectSeq(s, LAMBDA c : IsWord(c) \/ IsSpace(c))

\* str.strip()
str_strip(s) ==
    LET inside == {i \in 1..Len(s) : ~IsSpace(s[i])}
    IN  IF inside = {} THEN <<>>
        ELSE SubSeq(s, CHOOSE i \in inside : \A j \in inside : i <= j,
                       CHOOSE i \in inside : \A j \in inside : i >= j)

\* re.sub(r' +', ' ', s)
RECURSIVE OneSpace(_)
OneSpace(s) ==
    IF Len(s) <= 1 THEN s
    ELSE IF s[1] = SPACE /\ s[2] = SPACE THEN OneSpace(Tail(s))
    ELSE <<s[1]>> \o OneSpace(Tail(s))

\* str.lower(), for the characters of ASCII
lower(s) ==
    [i \in 1..Len(s) |->
        IF s[i] \in UPPER_A..90 THEN s[i] + (97 - UPPER_A) ELSE s[i]]

\* s[:n]
Prefix(s, n) == SubSeq(s, 1, IF n < Len(s) THEN n ELSE Len(s))

\* no text returned
NoText == [present |-> FALSE, value |-> <<>>]

Text(s) == [present |-> TRUE, value |-> s]

\* InputProcessor._handle_auto_punctuation; current_position is not read
_handle_auto_punctuation(user_text, expected) ==
    IF expected = <<>> THEN [text |-> user_text, added |-> NoText]
    ELSE IF /\ expected[1] \in auto_punctuation_marks
            /\ (user_text = <<>> \/ user_text[1] # expected[1])
    THEN [text |-> <<expected[1]>> \o user_text,
          added |-> Text(<<expected[1]>>)]
    ELSE IF /\ expected[1] \in DOMAIN punctuation_pairs
            /\ user_text = <<expected[1]>>
            /\ \E i \in 1..Len(Prefix(Tail(expected), LOOK_AHEAD)) :
                   Tail(expected)[i] = punctuation_pairs[expected[1]]
    THEN [text |-> user_text \o <<punctuation_pairs[expected[1]]>>,
          added |-> Text(<<punctuation_pairs[expected[1]]>>)]
    ELSE [text |-> user_text, added |-> NoText]

\* InputProcessor._handle_punctuation_tolerance
_handle_punctuation_tolerance(user_text, expected) ==
    IF user_text = <<>> \/ expected = <<>>
    THEN [text |-> user_text, is_valid |-> FALSE, message |-> PY_NONE]
    ELSE IF /\ WithoutPunctuation(user_text) = WithoutPunctuation(expected)
            /\ WithoutPunctuation(user_text) # <<>>
    THEN [text |-> user_text, is_valid |-> TRUE,
          message |-> "Punctuation differences ignored"]
    ELSE [text |-> user_text, is_valid |-> FALSE, message |-> PY_NONE]

\* InputProcessor._handle_whitespace
_handle_whitespace(config, user_text, expected) ==
    IF expected = <<>> THEN [text |-> user_text, note |-> PY_NONE]
    ELSE IF /\ config.auto_correct_spaces
            /\ expected[1] = SPACE
            /\ user_text # <<>>
            /\ user_text[Len(user_text)] \in space_after_punctuation
    THEN [text |-> user_text \o <<SPACE>>,
          note |-> "Auto-added space after punctuation"]
    ELSE IF /\ config.ignore_extra_spaces
            /\ OneSpace(str_strip(user_text)) = OneSpace(str_strip(expected))
    THEN [text |-> user_text, note |-> "Extra spaces ignored"]
    ELSE [text |-> user_text, note |-> PY_NONE]

\* the tuple process_input returns; a status message is its text and, for an
\* added punctuation mark, the mark that ends it
Processed(processed_input, should_accept, message, mark) ==
    [present |-> TRUE, processed_input |-> processed_input,
     should_accept |-> should_accept,
     status_message |-> [text |-> message, mark |-> mark]]

\* nothing processed yet
NoProcessed ==
    [present |-> FALSE, processed_input |-> <<>>, should_accept |-> FALSE,
     status_message |-> [text |-> "", mark |-> <<>>]]

\* variant: the verdict of the punctuation tolerance is the verdict on the
\* keystroke
InputProcessor_process_input_Strict(config, user_text, expected) ==
    IF user_text = <<>> THEN Processed(user_text, TRUE, "", <<>>)
    ELSE IF config.handle_punctuation /\ config.ignore_punctuation_errors
    THEN LET tolerance == _handle_punctuation_tolerance(user_text, expected)
         IN  Processed(tolerance.text, tolerance.is_valid, "", <<>>)
    ELSE Processed(user_text, TRUE, "", <<>>)

\* InputProcessor.process_input; current_position is only printed
InputProcessor_process_input(config, user_text, expected) ==
    LET auto == _handle_auto_punctuation(user_text, expected)
        tolerance == _handle_punctuation_tolerance(user_text, expected)
        whitespace == _handle_whitespace(config, user_text, expected)
    IN  IF user_text = <<>> THEN Processed(user_text, TRUE, "", <<>>)
        ELSE IF /\ config.auto_punctuation
                /\ config.handle_punctuation
                /\ auto.added.present
        THEN Processed(auto.text, TRUE, "Auto-added punctuation: ",
                       auto.added.value)
        ELSE IF /\ config.handle_punctuation
                /\ config.ignore_punctuation_errors
                /\ tolerance.is_valid
        THEN Processed(tolerance.text, TRUE,
                       IF tolerance.message = PY_NONE
                       THEN "Punctuation tolerance applied"
                       ELSE tolerance.message, <<>>)
        ELSE IF /\ config.handle_whitespace
                /\ whitespace.note # PY_NONE
        THEN Processed(whitespace.text, TRUE, whitespace.note, <<>>)
        ELSE IF /\ ~config.case_sensitive
                /\ lower(user_text) = lower(expected)
        THEN Processed(lower(user_text), TRUE, "Case-insensitive match", <<>>)
        ELSE Processed(user_text, TRUE, "", <<>>)

\* InputProcessor(config), before any call
input_processor_init ==
    /\ input_config = InputProcessingConfig
    /\ user_input = <<>>
    /\ expected_text = <<>>
    /\ processed = NoProcessed

-----------------------------------------------------------------------------
(* The field processor: utils/field_processor.py *)

LT == 60
GT == 62
AMPERSAND == 38

\* ProcessingConfig()
ProcessingConfig ==
    [remove_html_tags |-> TRUE, preserve_line_breaks |-> TRUE,
     handle_html_entities |-> TRUE, normalize_whitespace |-> TRUE,
     remove_extra_spaces |-> TRUE, keep_important_formatting |-> FALSE,
     replace_html_formatting |-> TRUE]

\* the code points of a text of ASCII letters and signs
lt == <<108, 116>>
gt == <<103, 116>>
amp == <<97, 109, 112>>
nbsp == <<110, 98, 115, 112>>
br == <<98, 114>>
strong == <<115, 116, 114, 111, 110, 103>>
em == <<101, 109>>
mark == <<109, 97, 114, 107>>

\* the text s has the text pattern at index i; ignore_case is re.IGNORECASE
\* for a pattern of lower-case letters
StartsWith(s, i, pattern, ignore_case) ==
    /\ i + Len(pattern) - 1 <= Len(s)
    /\ \A k \in 1..Len(pattern) :
          \/ s[i + k - 1] = pattern[k]
          \/ ignore_case /\ lower(<<s[i + k - 1]>>) = <<pattern[k]>>

\* the least index from i on where s has the character c, 0 when none
FirstAt(s, i, c) ==
    LET found == {j \in i..Len(s) : s[j] = c}
    IN  IF found = {} THEN 0 ELSE CHOOSE j \in found : \A k \in found : j <= k

\* the least index from i on where s has the text pattern, 0 when none
FirstMatch(s, i, pattern) ==
    LET found == {j \in i..Len(s) : StartsWith(s, j, pattern, TRUE)}
    IN  IF found = {} THEN 0 ELSE CHOOSE j \in found : \A k \in found : j <= k

\* html.unescape, from index i on, for the references &lt; &gt; &amp; and
\* &nbsp; written with their semicolon
RECURSIVE unescape(_, _)
unescape(s, i) ==
    IF i > Len(s) THEN <<>>
    ELSE IF StartsWith(s, i, <<AMPERSAND>> \o lt \o <<59>>, FALSE)
    THEN <<LT>> \o unescape(s, i + 4)
    ELSE IF StartsWith(s, i, <<AMPERSAND>> \o gt \o <<59>>, FALSE)
    THEN <<GT>> \o unescape(s, i + 4)
    ELSE IF StartsWith(s, i, <<AMPERSAND>> \o amp \o <<59>>, FALSE)
    THEN <<AMPERSAND>> \o unescape(s, i + 5)
    ELSE IF StartsWith(s, i, <<AMPERSAND>> \o nbsp \o <<59>>, FALSE)
    THEN <<NBSP>> \o unescape(s, i + 6)
    ELSE <<s[i]>> \o unescape(s, i + 1)

\* FieldProcessor._decode_html_entities
_decode_html_entities(s) == unescape(s, 1)

\* re.sub(r'<name[^>]*>(.*?)</name>', r'\1', s, IGNORECASE | DOTALL), from
\* index i on
RECURSIVE Unwrap(_, _, _)
Unwrap(s, i, name) ==
    IF i > Len(s) THEN <<>>
    ELSE LET opened == IF StartsWith(s, i, <<LT>> \o name, TRUE)
                       THEN FirstAt(s, i + 1 + Len(name), GT) ELSE 0
             closing == <<LT, 47>> \o name \o <<GT>>
             closed == IF opened > 0 THEN FirstMatch(s, opened + 1, closing)
                       ELSE 0
         IN  IF closed > 0
             THEN SubSeq(s, opened + 1, closed - 1)
                      \o Unwrap(s, closed + Len(closing), name)
             ELSE <<s[i]>> \o Unwrap(s, i + 1, name)

\* FieldProcessor._replace_html_formatting: b, i, u, strong, em, mark
_replace_html_formatting(s) ==
    Unwrap(Unwrap(Unwrap(Unwrap(Unwrap(Unwrap(s, 1, <<98>>), 1, <<105>>),
                                1, <<117>>), 1, strong), 1, em), 1, mark)

\* (?!/?(b|i|u|strong|em)\b): after the "<" at index i comes a tag to keep
Important(s, i) ==
    \E name \in {<<98>>, <<105>>, <<117>>, strong, em}, slash \in {<<>>, <<47>>} :
        /\ StartsWith(s, i + 1, slash \o name, FALSE)
        /\ \/ i + Len(slash) + Len(name) = Len(s)
           \/ ~IsWord(s[i + Len(slash) + Len(name) + 1])

\* re.sub(r'<[^>]+>', '', s), or of the pattern that keeps the important
\* tags, from index i on
RECURSIVE RemoveTags(_, _, _)
RemoveTags(s, i, keep) ==
    IF i > Len(s) THEN <<>>
    ELSE LET closed == IF s[i] = LT /\ ~(keep /\ Important(s, i))
                       THEN FirstAt(s, i + 1, GT) ELSE 0
         IN  IF closed >= i + 2
             THEN RemoveTags(s, closed + 1, keep)
             ELSE <<s[i]>> \o RemoveTags(s, i + 1, keep)

\* FieldProcessor._remove_html_tags
_remove_html_tags(config, s) ==
    RemoveTags(s, 1, config.keep_important_formatting)

\* re.sub(r'<name[^>]*>', replacement, s, IGNORECASE) from index i on, where
\* opening is "<name"
RECURSIVE ReplaceTag(_, _, _, _)
ReplaceTag(s, i, opening, replacement) ==
    IF i > Len(s) THEN <<>>
    ELSE LET closed == IF StartsWith(s, i, opening, TRUE)
                       THEN FirstAt(s, i + Len(opening), GT) ELSE 0
         IN  IF closed > 0
             THEN replacement \o ReplaceTag(s, closed + 1, opening, replacement)
             ELSE <<s[i]>> \o ReplaceTag(s, i + 1, opening, replacement)

\* the number of line breaks that s has in a row from index i on
RECURSIVE Breaks(_, _)
Breaks(s, i) ==
    IF i > Len(s) \/ s[i] # NEWLINE THEN 0 ELSE 1 + Breaks(s, i + 1)

\* re.sub(r'\n{3,}', '\n\n', s), from index i on
RECURSIVE TwoBreaks(_, _)
TwoBreaks(s, i) ==
    IF i > Len(s) THEN <<>>
    ELSE IF Breaks(s, i) >= 3
    THEN <<NEWLINE, NEWLINE>> \o TwoBreaks(s, i + Breaks(s, i))
    ELSE <<s[i]>> \o TwoBreaks(s, i + 1)

\* FieldProcessor._preserve_line_breaks
_preserve_line_breaks(s) ==
    TwoBreaks(ReplaceTag(ReplaceTag(ReplaceTag(s, 1, <<LT>> \o br, <<NEWLINE>>),
                                    1, <<LT, 47, 112>>, <<NEWLINE, NEWLINE>>),
                         1, <<LT, 112>>, <<>>), 1)

\* FieldProcessor._normalize_whitespace: tab, form feed, vertical tab and the
\* no-break space become spaces
_normalize_whitespace(s) ==
    [i \in 1..Len(s) |-> IF s[i] \in {9, 11, 12, NBSP} THEN SPACE ELSE s[i]]

\* s.split('\n')
RECURSIVE Lines(_)
Lines(s) ==
    IF FirstAt(s, 1, NEWLINE) = 0 THEN <<s>>
    ELSE <<SubSeq(s, 1, FirstAt(s, 1, NEWLINE) - 1)>>
             \o Lines(SubSeq(s, FirstAt(s, 1, NEWLINE) + 1, Len(s)))

\* ' '.join(lines) of the stripped lines that are not empty
RECURSIVE JoinStripped(_)
JoinStripped(lines) ==
    IF lines = <<>> THEN <<>>
    ELSE IF str_strip(Head(lines)) = <<>> THEN JoinStripped(Tail(lines))
    ELSE IF JoinStripped(Tail(lines)) = <<>> THEN str_strip(Head(lines))
    ELSE str_strip(Head(lines)) \o <<SPACE>> \o JoinStripped(Tail(lines))

\* FieldProcessor._remove_extra_spaces
_remove_extra_spaces(s) == OneSpace(JoinStripped(Lines(s)))

\* FieldProcessor.process_field_content
process_field_content(config, text) ==
    LET decoded == IF config.handle_html_entities
                   THEN _decode_html_entities(text) ELSE text
        replaced == IF config.replace_html_formatting
                    THEN _replace_html_formatting(decoded) ELSE decoded
        removed == IF config.remove_html_tags
                   THEN _remove_html_tags(config, replaced) ELSE replaced
        preserved == IF config.preserve_line_breaks
                     THEN _preserve_line_breaks(removed) ELSE removed
        normalized == IF config.normalize_whitespace
                      THEN _normalize_whitespace(preserved) ELSE preserved
        cleaned_up == IF config.remove_extra_spaces
                      THEN _remove_extra_spaces(normalized) ELSE normalized
    IN  IF text = <<>> THEN <<>> ELSE str_strip(cleaned_up)

\* FieldProcessor(config), before any call
field_processor_init ==
    /\ processing_config = ProcessingConfig
    /\ field_content = <<>>
    /\ cleaned = NoText

\* TypingDialog after its first card is loaded
dialog_init ==
    /\ is_practice_active = TRUE
    /\ _finishing = FALSE
    /\ card_id = 0
    /\ answers = <<>>
    /\ popup = FALSE
    /\ key_seen = FALSE

\* the two processors of the utils package, before any call
utils_init ==
    /\ input_processor_init
    /\ field_processor_init

\* nothing scored, rated or measured yet
review_init ==
    /\ score = NoValue
    /\ practice_stats = NoPracticeStats
    /\ rating = NoValue
    /\ returned_accuracy = NoAccuracy
    /\ submitted = NoValue

\* TypingDialog._finish_practice up to the reset of the statistics that opens
\* _load_next_card; reviewer_active is what is_reviewer_active() answers, and
\* success only chooses the text of the popup.  An ended session has the
\* duration it had at its end, the clock not moving within the handler, so
\* the statistics are read from the state before.
_finish_practice(success) ==
    IF ~_is_running
    THEN UNCHANGED <<session, _is_running, score, practice_stats, rating,
                     submitted>>
    ELSE \E stats \in {PracticeStats(get_elapsed_time, get_error_count,
                                      get_hint_count, calculate_final_score)} :
             /\ score' = Returned(stats.score)
             /\ practice_stats' = stats
             /\ rating' = Returned(_calculate_rating(stats))
             /\ \E reviewer_active \in BOOLEAN :
                    submitted' = IF reviewer_active THEN rating' ELSE submitted
             /\ stats_reset

\* StatsCollector(), before any call
stats_init ==
    /\ session = NoSession
    /\ _is_running = FALSE
    /\ now = 0

-----------------------------------------------------------------------------
(* The engine driven by arbitrary calls; the hint manager is the one of the  *)
(* empty text and is not called                                              *)

Init ==
    /\ target_text \in Targets
    /\ engine_init(target_text)
    /\ hint_init(<<>>)
    /\ stats_init
    /\ review_init
    /\ dialog_init
    /\ utils_init

ProcessInput ==
    \E input_char \in InputEvents :
        /\ UNCHANGED <<target_text, fed, erased, hint_manager, stats_collector, review, dialog, utils>>
        /\ process_input(input_char)

ResetSentence ==
    /\ UNCHANGED <<target_text, fed, erased, hint_manager, stats_collector, review, dialog, utils>>
    /\ reset("sentence")

ResetWord ==
    /\ UNCHANGED <<target_text, fed, erased, hint_manager, stats_collector, review, dialog, utils>>
    /\ reset("word")

SetTargetText ==
    \E t \in Targets :
        /\ set_target_text(t)
        /\ UNCHANGED <<fed, erased, hint_manager, stats_collector, review, dialog, utils>>

Next ==
    \/ ProcessInput
    \/ ResetSentence
    \/ ResetWord
    \/ SetTargetText

Spec == Init /\ [][Next]_vars

-----------------------------------------------------------------------------
(* The engine driven by a script: the characters of target_text in order,   *)
(* then backspaces.                                                          *)

FeedTarget ==
    /\ erased = 0
    /\ fed < Len(target_text)
    /\ process_input(<<target_text[fed + 1]>>)
    /\ fed' = fed + 1
    /\ UNCHANGED <<target_text, erased, hint_manager, stats_collector, review, dialog, utils>>

FeedBackspace ==
    /\ erased < fed
    /\ process_input(<<BACKSPACE>>)
    /\ erased' = erased + 1
    /\ UNCHANGED <<target_text, fed, hint_manager, stats_collector, review, dialog, utils>>

ScriptNext ==
    \/ FeedTarget
    \/ FeedBackspace

SpecScript == Init /\ [][ScriptNext]_vars

-----------------------------------------------------------------------------
(* The hint manager driven by arbitrary calls, built for the same text as a *)
(* fresh engine, as the dialog builds them                                  *)

Positions == 0..MaxLen

HintInit ==
    /\ target_text \in Targets
    /\ engine_init(target_text)
    /\ hint_init(target_text)
    /\ stats_init
    /\ review_init
    /\ dialog_init
    /\ utils_init

engine_and_result == <<target_text, typed_text, current_position, error_count,
                       is_complete, characters, result, fed, erased>>

\* one call of get_hint, which changes nothing of the manager
\* variant: get_hint stores some level in the manager
HintFrame_StoresLevel ==
    /\ UNCHANGED <<hint_target_text, _word_boundaries, cycled,
                   boundary, engine_and_result, stats_collector, review, dialog, utils>>
    /\ hint_level' \in HintLevel

HintFrame ==
    UNCHANGED <<hint_target_text, hint_level, _word_boundaries, cycled,
                boundary, engine_and_result, stats_collector, review, dialog, utils>>

HintCall(position, level) ==
    /\ HintFrame
    /\ get_hint(position, level)

GetHint ==
    \E position \in Positions, level \in HintLevel \cup {PY_NONE} :
        HintCall(position, level)

CycleHintLevel ==
    /\ cycle_hint_level
    /\ UNCHANGED <<hint_target_text, _word_boundaries, hint, boundary,
                   engine_and_result, stats_collector, review, dialog, utils>>

SetHintLevel ==
    \E level \in HintLevel :
        /\ set_hint_level(level)
        /\ UNCHANGED <<hint_target_text, _word_boundaries, hint, cycled,
                       boundary, engine_and_result, stats_collector, review, dialog, utils>>

HintReset ==
    /\ hint_reset
    /\ UNCHANGED <<hint_target_text, _word_boundaries, hint, cycled,
                   boundary, engine_and_result, stats_collector, review, dialog, utils>>

\* one call of get_current_word_boundary, which changes nothing of the manager
BoundaryCall(position) ==
    /\ UNCHANGED <<hint_target_text, hint_level, _word_boundaries, hint,
                   cycled, engine_and_result, stats_collector, review, dialog, utils>>
    /\ boundary' = get_current_word_boundary(position)

GetCurrentWordBoundary ==
    \E position \in Positions : BoundaryCall(position)

HintNext ==
    \/ GetHint
    \/ CycleHintLevel
    \/ SetHintLevel
    \/ HintReset

SpecHint == HintInit /\ [][HintNext]_vars

\* the same, with the calls of get_current_word_boundary from outside
WordsNext ==
    \/ GetHint
    \/ GetCurrentWordBoundary
    \/ CycleHintLevel
    \/ SetHintLevel
    \/ HintReset

SpecWords == HintInit /\ [][WordsNext]_vars

-----------------------------------------------------------------------------
(* The statistics collector driven by arbitrary calls while the clock runs; *)
(* sessions are started for the text of the engine, as the dialog starts    *)
(* them; the engine and the hint manager are not called                     *)

StatsInit ==
    /\ target_text \in Targets
    /\ engine_init(target_text)
    /\ hint_init(<<>>)
    /\ stats_init
    /\ review_init
    /\ dialog_init
    /\ utils_init

StartSession ==
    /\ UNCHANGED <<now, engine_and_result, hint_manager, review, dialog, utils>>
    /\ start_session(target_text)

EndSession ==
    /\ UNCHANGED <<now, engine_and_result, hint_manager, review, dialog, utils>>
    /\ end_session

IncrementErrorCount ==
    /\ UNCHANGED <<now, engine_and_result, hint_manager, review, dialog, utils>>
    /\ increment_error_count

IncrementHintCount ==
    /\ UNCHANGED <<now, engine_and_result, hint_manager, review, dialog, utils>>
    /\ increment_hint_count

StatsReset ==
    /\ UNCHANGED <<now, engine_and_result, hint_manager, review, dialog, utils>>
    /\ stats_reset

\* a second passes
Tick ==
    /\ now < MaxTime
    /\ now' = now + 1
    /\ UNCHANGED <<session, _is_running, engine_and_result, hint_manager,
                   review, dialog, utils>>

StatsNext ==
    \/ StartSession
    \/ EndSession
    \/ IncrementErrorCount
    \/ IncrementHintCount
    \/ StatsReset
    \/ Tick

SpecStats == StatsInit /\ [][StatsNext]_vars

-----------------------------------------------------------------------------
(* Sessions of any counts and times, scored *)

ScoreCharacterCounts == {0, 3, 50}
ScoreErrorCounts == {0, 1, 21, 51}
ScoreHintCounts == {0, 1, 5}
ScoreWordCounts == {0, 1, 2}
ScoreStartTimes == {0, 1}
ScoreEndTimes == {0, 1, 7, 90}

ScoreInit ==
    /\ engine_init(<<>>)
    /\ hint_init(<<>>)
    /\ review_init
    /\ dialog_init
    /\ utils_init
    /\ now \in ScoreEndTimes
    /\ _is_running \in BOOLEAN
    /\ \E st \in ScoreStartTimes, cc \in ScoreCharacterCounts,
          wc \in ScoreWordCounts, ec \in ScoreErrorCounts,
          hc \in ScoreHintCounts :
          session = [PracticeSession(st, cc, wc) EXCEPT
                        !.ended = ~_is_running,
                        !.end_time = IF _is_running THEN 0 ELSE now,
                        !.error_count = ec,
                        !.hint_count = hc]

CalculateFinalScore ==
    /\ score' = Returned(calculate_final_score)
    /\ UNCHANGED <<engine_and_result, hint_manager, stats_collector,
                   practice_stats, rating, returned_accuracy, submitted,
                   dialog, utils>>

\* TypingDialog._finish_practice at the completion of the text
FinishPractice ==
    /\ UNCHANGED <<now, engine_and_result, hint_manager, returned_accuracy,
                   dialog, utils>>
    /\ _finish_practice(TRUE)

ScoreNext ==
    \/ CalculateFinalScore
    \/ FinishPractice

SpecScore == ScoreInit /\ [][ScoreNext]_vars

-----------------------------------------------------------------------------
(* Practice statistics of any counts and score, rated *)

RatingErrorCounts == 0..7
RatingHintCounts == 0..3
RatingScores == {0, 79, 80, 89, 90, 95, 100}

RatingInit ==
    /\ engine_init(<<>>)
    /\ hint_init(<<>>)
    /\ stats_init
    /\ review_init
    /\ dialog_init
    /\ utils_init

CalculateRating ==
    /\ UNCHANGED <<engine_and_result, hint_manager, stats_collector, score,
                   returned_accuracy, submitted, dialog, utils>>
    /\ \E e \in RatingErrorCounts, h \in RatingHintCounts, sc \in RatingScores :
          /\ practice_stats' = PracticeStats(0, e, h, sc)
          /\ rating' = Returned(_calculate_rating(practice_stats'))

RatingNext == CalculateRating

SpecRating == RatingInit /\ [][RatingNext]_vars

-----------------------------------------------------------------------------
(* A practice of a card of one or two words, given up *)

FinishTargets == {<<97>>, <<97, SPACE, 97>>}

FinishInit ==
    /\ target_text \in FinishTargets
    /\ engine_init(target_text)
    /\ hint_init(<<>>)
    /\ stats_init
    /\ review_init
    /\ dialog_init
    /\ utils_init

\* TypingDialog._give_up answered Yes
GiveUp ==
    /\ UNCHANGED <<now, engine_and_result, hint_manager, returned_accuracy,
                   dialog, utils>>
    /\ _finish_practice(FALSE)

FinishNext ==
    \/ StartSession
    \/ IncrementErrorCount
    \/ IncrementHintCount
    \/ Tick
    \/ GiveUp

SpecFinish == FinishInit /\ [][FinishNext]_vars

-----------------------------------------------------------------------------
(* The engine and the hint manager of one text of letters, spaces and       *)
(* no-break spaces, all of which can be typed                               *)

WordStartAlphabet == {SPACE, NBSP} \cup Letters

RECURSIVE WordStartStrings(_)
WordStartStrings(n) ==
    IF n = 0 THEN {<<>>}
    ELSE LET shorter == WordStartStrings(n - 1)
         IN  shorter \cup {Append(s, c) : s \in {t \in shorter : Len(t) = n - 1},
                                          c \in WordStartAlphabet}

WordStartTargets == WordStartStrings(MaxLen)

WordStartInit ==
    /\ target_text \in WordStartTargets
    /\ engine_init(target_text)
    /\ hint_init(target_text)
    /\ stats_init
    /\ review_init
    /\ dialog_init
    /\ utils_init

TypeCharacter ==
    \E c \in WordStartAlphabet \cup {BACKSPACE} :
        /\ UNCHANGED <<target_text, fed, erased, hint_manager, stats_collector,
                       review, dialog, utils>>
        /\ process_input(<<c>>)

WordStartNext ==
    \/ TypeCharacter
    \/ ResetWord

SpecWordStart == WordStartInit /\ [][WordStartNext]_vars

-----------------------------------------------------------------------------
(* The engine of one text, typed into, reset and asked for its accuracy *)

GetAccuracy ==
    /\ UNCHANGED <<engine_and_result, hint_manager, stats_collector, score,
                   practice_stats, rating, submitted, dialog, utils>>
    /\ returned_accuracy' = [present |-> TRUE, value |-> get_accuracy]

AccuracyNext ==
    \/ ProcessInput
    \/ ResetSentence
    \/ ResetWord
    \/ GetAccuracy

SpecAccuracy == Init /\ [][AccuracyNext]_vars

-----------------------------------------------------------------------------
(* Vocabulary of the properties *)

Slot(i) == characters[i + 1]

SlotIndexes == 0..(Len(characters) - 1)

AllPrintable(s) == \A i \in 1..Len(s) : s[i] >= FIRST_PRINTABLE

BeforeCorrectAfterUndefined ==
    \A i \in SlotIndexes :
        /\ i < current_position => Slot(i) = CORRECT
        /\ i > current_position => Slot(i) = UNDEFINED

\* process_input(input_char) is called and returns
Call(input_char) ==
    /\ UNCHANGED <<target_text, fed, erased, hint_manager, stats_collector, review, dialog, utils>>
    /\ process_input(input_char)

NoOpFlags(r, comp) ==
    /\ r.present
    /\ r.is_correct = FALSE
    /\ r.is_complete = comp
    /\ r.error_occurred = FALSE

-----------------------------------------------------------------------------
(* C1 as stated: for a non-empty target, either the session is complete and *)
(* no slot is Current, or exactly one slot is Current and it is the slot at *)
(* current_position; every slot before current_position is Correct and      *)
(* every slot after it is Undefined.                                        *)
C1_SlotInvariantAsStated ==
    Len(target_text) > 0 =>
        /\ \/ /\ is_complete
              /\ \A i \in SlotIndexes : Slot(i) # CURRENT
           \/ /\ Cardinality({i \in SlotIndexes : Slot(i) = CURRENT}) = 1
              /\ current_position \in SlotIndexes
              /\ Slot(current_position) = CURRENT
        /\ BeforeCorrectAfterUndefined

(* C1 amended: for a non-empty target, either the session is complete and   *)
(* no slot is Current or Error, or exactly one slot is Current or Error and *)
(* it is the slot at current_position; every slot before current_position   *)
(* is Correct and every slot after it is Undefined.                         *)
C1_SlotInvariant ==
    Len(target_text) > 0 =>
        /\ \/ /\ is_complete
              /\ \A i \in SlotIndexes : Slot(i) \notin {CURRENT, ERROR}
           \/ /\ Cardinality({i \in SlotIndexes :
                                 Slot(i) \in {CURRENT, ERROR}}) = 1
              /\ current_position \in SlotIndexes
              /\ Slot(current_position) \in {CURRENT, ERROR}
        /\ BeforeCorrectAfterUndefined

\* a wrong keystroke in the middle of a text, after a correct one
C1_Witness ==
    /\ Len(target_text) > 1
    /\ current_position > 0
    /\ current_position < Len(target_text)
    /\ Slot(current_position) = ERROR
    /\ error_count > 0

-----------------------------------------------------------------------------
(* C2 as stated: for a non-empty target, is_complete is true exactly when   *)
(* current_position == len(target_text).                                    *)
C2_CompleteIffAtEnd ==
    Len(target_text) > 0 =>
        (is_complete <=> current_position = Len(target_text))

-----------------------------------------------------------------------------
(* C3: once is_complete is true, every process_input call returns           *)
(* is_correct=false, is_complete=true, error_occurred=false and leaves      *)
(* typed_text, current_position, error_count, is_complete and all slot      *)
(* states unchanged.                                                        *)
C3_CompleteIsNoOp ==
    [][\A input_char \in InputEvents :
          (is_complete /\ Call(input_char)) =>
              /\ UNCHANGED <<typed_text, current_position, error_count,
                             is_complete, characters>>
              /\ NoOpFlags(result', TRUE)]_vars

\* a completed engine that has answered a further call
C3_Witness ==
    /\ is_complete
    /\ NoOpFlags(result, TRUE)
    /\ result.current_position = Len(target_text)
    /\ Len(target_text) > 0

-----------------------------------------------------------------------------
(* C4 as stated: for every non-empty target, feeding process_input the      *)
(* characters of target_text one by one from the initial state ends with    *)
(* typed_text == target_text, current_position == len(target_text) and      *)
(* is_complete, every result reporting is_correct=true and only the last    *)
(* reporting is_complete=true.                                              *)
C4_RoundTripAsStated ==
    (Len(target_text) > 0 /\ erased = 0) =>
        /\ fed > 0 =>
              /\ result.is_correct
              /\ result.is_complete <=> (fed = Len(target_text))
        /\ fed = Len(target_text) =>
              /\ typed_text = target_text
              /\ current_position = Len(target_text)
              /\ is_complete

(* C4 amended: the same round trip, for every non-empty target whose        *)
(* characters are all printable (code point >= 32).                         *)
C4_RoundTrip ==
    (Len(target_text) > 0 /\ AllPrintable(target_text) /\ erased = 0) =>
        /\ fed > 0 =>
              /\ result.is_correct
              /\ result.is_complete <=> (fed = Len(target_text))
        /\ fed = Len(target_text) =>
              /\ typed_text = target_text
              /\ current_position = Len(target_text)
              /\ is_complete

\* a text of several printable characters typed to its end
C4_Witness ==
    /\ Len(target_text) > 1
    /\ AllPrintable(target_text)
    /\ erased = 0
    /\ fed = Len(target_text)
    /\ result.present
    /\ typed_text = target_text

-----------------------------------------------------------------------------
(* C5 as stated: for every target and every N with 0 <= N <= len, after N   *)
(* correct keystrokes from the initial state, N backspaces return           *)
(* current_position to 0, typed_text to the empty string and every slot to  *)
(* the initial configuration.                                               *)
C5_BackspaceInverseAsStated ==
    (erased = fed /\ AllPrintable(SubSeq(target_text, 1, fed))) =>
        /\ current_position = 0
        /\ typed_text = <<>>
        /\ \A i \in SlotIndexes :
              Slot(i) = IF i = 0 THEN CURRENT ELSE UNDEFINED

(* C5 amended: the same, for every N with 0 <= N < len(target_text), and    *)
(* for N = 0; after N = len(target_text) > 0 correct keystrokes the engine  *)
(* is complete and backspace changes nothing.                               *)
C5_BackspaceInverse ==
    (/\ erased = fed
     /\ AllPrintable(SubSeq(target_text, 1, fed))
     /\ (fed < Len(target_text) \/ fed = 0)) =>
        /\ current_position = 0
        /\ typed_text = <<>>
        /\ \A i \in SlotIndexes :
              Slot(i) = IF i = 0 THEN CURRENT ELSE UNDEFINED

\* two correct keystrokes undone by two backspaces
C5_Witness ==
    /\ fed > 1
    /\ erased = fed
    /\ fed < Len(target_text)
    /\ AllPrintable(SubSeq(target_text, 1, fed))
    /\ result.is_correct
    /\ result.current_position = 0

-----------------------------------------------------------------------------
(* Kinds of input event *)

Printable(input_char) ==
    /\ Len(input_char) = 1
    /\ input_char[1] >= FIRST_PRINTABLE

\* a printable keystroke that differs from the expected character
WrongKey(input_char) ==
    /\ Printable(input_char)
    /\ current_position < Len(target_text)
    /\ input_char[1] # target_text[current_position + 1]

\* a printable keystroke equal to the expected character
RightKey(input_char) ==
    /\ Printable(input_char)
    /\ current_position < Len(target_text)
    /\ input_char[1] = target_text[current_position + 1]

\* a control character other than backspace, or not a single character
Ignored(input_char) ==
    /\ input_char # <<BACKSPACE>>
    /\ Len(input_char) # 1 \/ input_char[1] < FIRST_PRINTABLE

-----------------------------------------------------------------------------
(* C6: a wrong printable keystroke on a non-complete engine increments      *)
(* error_count by exactly 1, marks the slot at current_position Error,      *)
(* leaves current_position, typed_text and is_complete unchanged and        *)
(* returns the result is_correct=false, error_occurred=true,                *)
(* is_complete=false.                                                       *)
C6_WrongKey ==
    [][\A input_char \in InputEvents :
          (~is_complete /\ WrongKey(input_char) /\ Call(input_char)) =>
              /\ error_count' = error_count + 1
              /\ characters'[current_position + 1] = ERROR
              /\ UNCHANGED <<current_position, typed_text, is_complete>>
              /\ result'.present
              /\ result'.is_correct = FALSE
              /\ result'.error_occurred = TRUE
              /\ result'.is_complete = FALSE]_vars

\* a wrong keystroke has been answered
C6_Witness ==
    /\ result.present
    /\ result.error_occurred
    /\ error_count > 0
    /\ ~is_complete
    /\ current_position = result.current_position
    /\ Slot(current_position) = ERROR

-----------------------------------------------------------------------------
(* C7: a printable keystroke equal to target_text[current_position] on a    *)
(* non-complete engine appends that character to typed_text, advances       *)
(* current_position by exactly 1, marks the just-typed slot Correct and the *)
(* new current slot Current when one remains, sets is_complete to           *)
(* (current_position >= len(target_text)), leaves error_count unchanged and *)
(* returns is_correct=true, error_occurred=false.                           *)
C7_RightKey ==
    [][\A input_char \in InputEvents :
          (~is_complete /\ RightKey(input_char) /\ Call(input_char)) =>
              /\ typed_text' = Append(typed_text, input_char[1])
              /\ current_position' = current_position + 1
              /\ characters'[current_position + 1] = CORRECT
              /\ current_position' < Len(target_text) =>
                     characters'[current_position' + 1] = CURRENT
              /\ is_complete' = (current_position' >= Len(target_text))
              /\ error_count' = error_count
              /\ result'.present
              /\ result'.is_correct = TRUE
              /\ result'.error_occurred = FALSE]_vars

\* a correct keystroke that did not end the text has been answered
C7_Witness ==
    /\ result.present
    /\ result.is_correct
    /\ ~result.is_complete
    /\ result.current_position = Len(result.typed_text)
    /\ result.current_position > 1
    /\ current_position = result.current_position
    /\ Slot(current_position) = CURRENT
    /\ Slot(current_position - 1) = CORRECT

-----------------------------------------------------------------------------
(* C8: backspace on a non-complete engine with current_position = p > 0     *)
(* sets current_position to p-1, removes the last character of typed_text,  *)
(* sets slot p-1 to Current and slot p (when it exists) to Undefined, and   *)
(* leaves error_count and all other slots unchanged; with p == 0 it changes *)
(* nothing.                                                                 *)
C8_Backspace ==
    [][(~is_complete /\ Call(<<BACKSPACE>>)) =>
          IF current_position > 0
          THEN /\ current_position' = current_position - 1
               /\ typed_text' = SubSeq(typed_text, 1, Len(typed_text) - 1)
               /\ Len(typed_text') = Len(typed_text) - 1
               /\ Len(characters') = Len(characters)
               /\ \A i \in SlotIndexes :
                     characters'[i + 1] =
                         IF i = current_position - 1 THEN CURRENT
                         ELSE IF i = current_position THEN UNDEFINED
                         ELSE characters[i + 1]
               /\ error_count' = error_count
          ELSE UNCHANGED <<target_text, typed_text, current_position,
                           error_count, is_complete, characters>>]_vars

\* a backspace from position 1 has been answered
C8_Witness ==
    /\ result.present
    /\ result.is_correct
    /\ result.current_position = 0
    /\ current_position = 0
    /\ typed_text = <<>>
    /\ Len(characters) > 1
    /\ Slot(0) = CURRENT
    /\ Slot(1) = UNDEFINED

-----------------------------------------------------------------------------
(* C9 as stated: every backspace input processed on a non-complete engine,  *)
(* at every cursor position including current_position == 0, returns       *)
(* is_correct=true and error_occurred=false.                                *)
C9_BackspaceAlwaysCorrect ==
    [][(~is_complete /\ Call(<<BACKSPACE>>)) =>
          /\ result'.is_correct = TRUE
          /\ result'.error_occurred = FALSE]_vars

-----------------------------------------------------------------------------
(* C10: process_input given a control character other than backspace, or a  *)
(* multi-character string, returns a no-op result (is_correct=false,        *)
(* error_occurred=false) and changes no engine field.                       *)
C10_IgnoredInput ==
    [][\A input_char \in InputEvents :
          (Ignored(input_char) /\ Call(input_char)) =>
              /\ UNCHANGED <<target_text, typed_text, current_position,
                             error_count, is_complete, characters>>
              /\ result'.present
              /\ result'.is_correct = FALSE
              /\ result'.error_occurred = FALSE]_vars

\* an ignored input has been answered in the middle of a text
C10_Witness ==
    /\ NoOpFlags(result, FALSE)
    /\ result.current_position > 0
    /\ current_position = result.current_position
    /\ ~is_complete

-----------------------------------------------------------------------------
(* C11 as stated: process_input with a multi-character or empty input event *)
(* signals an InvalidArgument fault instead of returning a Result.          *)
C11_FailFastAsStated ==
    [][\A input_char \in InputEvents :
          (Len(input_char) # 1 /\ Call(input_char)) =>
              /\ result'.raised = "InvalidArgument"
              /\ ~result'.present]_vars

(* C11 amended: process_input with a multi-character or empty input event   *)
(* raises nothing: it returns a Result with is_correct=false and            *)
(* error_occurred=false that carries the unchanged typed_text and           *)
(* current_position.                                                        *)
C11_NoFault ==
    [][\A input_char \in InputEvents :
          (Len(input_char) # 1 /\ Call(input_char)) =>
              /\ result'.raised = "none"
              /\ result'.present
              /\ result'.is_correct = FALSE
              /\ result'.error_occurred = FALSE
              /\ result'.typed_text = typed_text
              /\ result'.current_position = current_position]_vars

\* an ignored event answered with a Result after some text was typed
C11_Witness ==
    /\ result.raised = "none"
    /\ NoOpFlags(result, FALSE)
    /\ result.typed_text # <<>>
    /\ result.typed_text = typed_text
    /\ result.live

-----------------------------------------------------------------------------
(* C12 as stated: an engine constructed with (or set to) the empty target   *)
(* text is immediately complete, and every process_input call on it returns *)
(* the completed no-op result (is_complete=true).                           *)
C12_EmptyTargetComplete ==
    Len(target_text) = 0 =>
        /\ is_complete
        /\ (result.present /\ result.live) => result.is_complete

-----------------------------------------------------------------------------
(* C13: reset('sentence') leaves the engine in exactly the state of a       *)
(* freshly constructed engine for the same target (typed_text empty,        *)
(* current_position 0, error_count 0, is_complete false, slot 0 Current and *)
(* all others Undefined), and set_target_text(t) in exactly the state of a  *)
(* freshly constructed engine for t.                                        *)
FreshlyConstructed(t) ==
    /\ target_text' = t
    /\ typed_text' = <<>>
    /\ current_position' = 0
    /\ error_count' = 0
    /\ is_complete' = FALSE
    /\ Len(characters') = Len(t)
    /\ \A i \in 1..Len(t) :
          characters'[i] = IF i = 1 THEN CURRENT ELSE UNDEFINED

C13_ResetIsFresh ==
    [][/\ ResetSentence => FreshlyConstructed(target_text)
       /\ (/\ UNCHANGED <<fed, erased, hint_manager, stats_collector, review, dialog, utils>>
           /\ set_target_text(target_text')) =>
              FreshlyConstructed(target_text')]_vars

\* a full reset of an engine that had typed text and counted an error
C13_Witness ==
    /\ result.present
    /\ ~result.live
    /\ result.error_occurred
    /\ result.typed_text # <<>>
    /\ typed_text = <<>>
    /\ error_count = 0
    /\ Len(target_text) > 1

-----------------------------------------------------------------------------
(* C14: reset('word') with current_position = p > 0 moves the cursor to b,  *)
(* the largest index <= p-1 such that b == 0 or target_text[b-1] is a       *)
(* space; typed_text is truncated to its first b characters, every slot     *)
(* from b onward becomes Undefined except slot b which becomes Current, and *)
(* slots before b stay Correct.  With p == 0 it changes nothing.            *)
WordBoundaries(p) ==
    {b \in 0..(p - 1) : b = 0 \/ target_text[b] = SPACE}

LastWordBoundary(p) ==
    CHOOSE b \in WordBoundaries(p) : \A c \in WordBoundaries(p) : c <= b

C14_ResetWord ==
    [][ResetWord =>
          IF current_position > 0
          THEN LET b == LastWordBoundary(current_position)
               IN  /\ current_position' = b
                   /\ Len(typed_text') = b
                   /\ typed_text' = SubSeq(typed_text, 1, b)
                   /\ Len(characters') = Len(characters)
                   /\ \A i \in SlotIndexes :
                         /\ i < b => /\ characters[i + 1] = CORRECT
                                     /\ characters'[i + 1] = CORRECT
                         /\ i = b => characters'[i + 1] = CURRENT
                         /\ i > b => characters'[i + 1] = UNDEFINED
          ELSE UNCHANGED <<target_text, typed_text, current_position,
                           error_count, is_complete, characters>>]_vars

\* "a a" with "a " typed: the word reset rewinds over the space to 0
C14_Witness ==
    /\ target_text = <<97, SPACE, 97>>
    /\ result.live
    /\ result.is_correct
    /\ result.current_position = 2
    /\ current_position = 0
    /\ typed_text = <<>>
    /\ characters = <<CURRENT, UNDEFINED, UNDEFINED>>

-----------------------------------------------------------------------------
(* C15: error_count never decreases across any process_input call or        *)
(* reset('word'); a process_input call increases it, by exactly 1, exactly  *)
(* when it is a wrong printable keystroke taken by a non-complete engine;   *)
(* only reset('sentence') or set_target_text returns it to 0.               *)
C15_ErrorCountCumulative ==
    [][/\ ResetWord => error_count' = error_count
       /\ \A input_char \in InputEvents :
             Call(input_char) =>
                 error_count' = error_count +
                     (IF ~is_complete /\ WrongKey(input_char) THEN 1 ELSE 0)
       /\ error_count' < error_count =>
             /\ error_count' = 0
             /\ ResetSentence \/ SetTargetText]_vars

\* errors counted, then a word reset that kept them
C15_Witness ==
    /\ error_count > 0
    /\ result.live
    /\ current_position < result.current_position
    /\ ~is_complete
    /\ Slot(current_position) = CURRENT

-----------------------------------------------------------------------------
(* C16 as stated: the slot states recorded in a Result are not changed by a *)
(* later call on the same engine (the model keeps the last Result, so the   *)
(* later call is reset('word')).                                            *)
C16_ResultIsSnapshot ==
    [][(ResetWord /\ result.present) =>
          result'.characters = result.characters]_vars

-----------------------------------------------------------------------------
(* C17 as stated: after a wrong keystroke has marked the slot at            *)
(* current_position Error, the next process_input call that records no      *)
(* error and does not move the cursor (an ignored control character, a      *)
(* multi-character event, a backspace at position 0) leaves that slot       *)
(* Current.                                                                 *)
C17_ErrorIsTransient ==
    [][\A input_char \in InputEvents :
          (/\ current_position < Len(characters)
           /\ Slot(current_position) = ERROR
           /\ \/ Ignored(input_char)
              \/ input_char = <<BACKSPACE>> /\ current_position = 0
           /\ Call(input_char)) =>
              characters'[current_position + 1] = CURRENT]_vars

-----------------------------------------------------------------------------
(* C18 as stated: a printable keystroke that differs from                   *)
(* target_text[current_position] only in letter case is accepted as correct *)
(* (cursor advances, no error counted).                                     *)
Lower(c) == IF c \in 65..90 THEN c + 32 ELSE c

C18_CaseInsensitiveAccepted ==
    [][\A input_char \in InputEvents :
          (/\ ~is_complete
           /\ Printable(input_char)
           /\ current_position < Len(target_text)
           /\ input_char[1] # target_text[current_position + 1]
           /\ Lower(input_char[1]) = Lower(target_text[current_position + 1])
           /\ Call(input_char)) =>
              /\ current_position' = current_position + 1
              /\ error_count' = error_count
              /\ result'.is_correct]_vars

-----------------------------------------------------------------------------
(* Hint levels *)

\* position of a level in the order None < Character < Word < Sentence
Rank(level) ==
    IF level = NONE THEN 0
    ELSE IF level = CURRENT_CHARACTER THEN 1
    ELSE IF level = CURRENT_WORD THEN 2
    ELSE 3

\* C19: cycle_hint_level moves the level exactly one step up the order
\* None, Character, Word, Sentence, stays at Sentence once there, and
\* returns the new level; reset() sets the level to None; a step that
\* lowers the level is a reset() or a set_hint_level step.
C19_CycleClamps ==
    [][ /\ CycleHintLevel =>
            /\ hint_level = NONE => hint_level' = CURRENT_CHARACTER
            /\ hint_level = CURRENT_CHARACTER => hint_level' = CURRENT_WORD
            /\ hint_level = CURRENT_WORD => hint_level' = FULL_SENTENCE
            /\ hint_level = FULL_SENTENCE => hint_level' = FULL_SENTENCE
            /\ cycled' = hint_level'
        /\ HintReset => hint_level' = NONE
        /\ Rank(hint_level') < Rank(hint_level) =>
               (HintReset \/ SetHintLevel) /\ ~CycleHintLevel
      ]_vars

\* a cycle taken at Sentence has returned Sentence
C19_Witness ==
    /\ cycled = FULL_SENTENCE
    /\ hint_level = FULL_SENTENCE
    /\ hint.present
    /\ hint.level = FULL_SENTENCE

\* C20: get_hint returns no hint exactly when the level in force is None
\* or the position is at or past the end of the target text; at level
\* Character the content is the one character at the position; at level
\* Sentence the content is the target text with a "[" put before and a
\* "]" put after the character at the position and nothing else changed.
C20_HintContent ==
    [][ HintFrame =>
        \A position \in Positions, level \in HintLevel \cup {PY_NONE} :
          get_hint(position, level) =>
            LET in_force == IF level = PY_NONE THEN hint_level ELSE level
                t == hint_target_text
                n == Len(hint_target_text)
                content == hint'.content
            IN  /\ ~hint'.present <=> (in_force = NONE \/ position >= n)
                /\ hint'.present =>
                     /\ hint'.level = in_force
                     /\ hint'.position = position
                /\ hint'.present /\ in_force = CURRENT_CHARACTER =>
                     content = <<t[position + 1]>>
                /\ hint'.present /\ in_force = FULL_SENTENCE =>
                     /\ Len(content) = n + 2
                     /\ content[position + 1] = LBRACKET
                     /\ content[position + 2] = t[position + 1]
                     /\ content[position + 3] = RBRACKET
                     /\ \A i \in 1..position : content[i] = t[i]
                     /\ \A i \in (position + 2)..n : content[i + 2] = t[i]
      ]_vars

\* a sentence hint asked for in the middle of a text of three characters
C20_Witness ==
    /\ hint.present
    /\ hint.level = FULL_SENTENCE
    /\ hint.position = 1
    /\ Len(hint_target_text) = 3
    /\ Len(hint.content) = 5

-----------------------------------------------------------------------------
(* Word hints *)

\* [s, e) is a whole word of t: a maximal run of characters that are no space
WholeWord(t, s, e) ==
    /\ 0 <= s
    /\ s < e
    /\ e <= Len(t)
    /\ \A i \in (s + 1)..e : ~IsSpace(t[i])
    /\ s = 0 \/ IsSpace(t[s])
    /\ e = Len(t) \/ IsSpace(t[e + 1])

\* the level get_hint works at when called with the argument level
LevelInForce(level) == IF level = PY_NONE THEN hint_level ELSE level

\* C21 as stated: for every position before the end of the text, the hint at
\* level Word is one whole word of the target that contains the position,
\* with "[" put before and "]" put after the character at the position.
C21_WordHint ==
    [][ HintFrame =>
        \A position \in Positions, level \in HintLevel \cup {PY_NONE} :
          (/\ LevelInForce(level) = CURRENT_WORD
           /\ position < Len(hint_target_text)
           /\ get_hint(position, level)) =>
              /\ hint'.present
              /\ \E s \in 0..position, e \in (position + 1)..Len(hint_target_text) :
                    /\ WholeWord(hint_target_text, s, e)
                    /\ hint'.content =
                         SubSeq(hint_target_text, s + 1, position)
                           \o <<LBRACKET, hint_target_text[position + 1],
                                RBRACKET>>
                           \o SubSeq(hint_target_text, position + 2, e)
      ]_vars

-----------------------------------------------------------------------------
(* Word boundaries *)

\* C22: get_current_word_boundary(position) returns the span [start, end) of
\* the whole word that contains the position when there is one; otherwise
\* (the position is on a space or past the end) it returns the span of the
\* first whole word that starts after the position, or (position, position)
\* when no word starts after it.
C22_WordBoundary ==
    [][ \A position \in Positions :
          BoundaryCall(position) =>
            LET t == hint_target_text
                n == Len(hint_target_text)
                Containing == {se \in (0..n) \X (0..n) :
                                  /\ WholeWord(t, se[1], se[2])
                                  /\ se[1] <= position
                                  /\ position < se[2]}
                Later == {se \in (0..n) \X (0..n) :
                             /\ WholeWord(t, se[1], se[2])
                             /\ position < se[1]}
            IN  /\ Containing # {} => boundary' \in Containing
                /\ Containing = {} /\ Later # {} =>
                     /\ boundary' \in Later
                     /\ \A se \in Later : boundary'[1] <= se[1]
                /\ Containing = {} /\ Later = {} =>
                     boundary' = <<position, position>>
      ]_vars

\* the boundary asked for on the space between two words is the second word
C22_Witness ==
    /\ hint_target_text = <<97, SPACE, 97>>
    /\ boundary = <<2, 3>>
    /\ hint.present
    /\ hint.position = 1
    /\ hint.word_start = 2

-----------------------------------------------------------------------------
(* Frame of the hint manager *)

\* C23: no operation of the hint manager changes its target text, its word
\* boundaries or any field of the typing engine; get_hint (with or without
\* a level argument) and get_current_word_boundary leave hint_level as it
\* is, so a step that changes hint_level is a cycle_hint_level, a
\* set_hint_level or a reset step.
C23_HintFrame ==
    [][ /\ UNCHANGED <<hint_target_text, _word_boundaries>>
        /\ UNCHANGED <<target_text, typed_text, current_position, error_count,
                       is_complete, characters>>
        /\ (hint' # hint \/ boundary' # boundary) => hint_level' = hint_level
        /\ hint_level' # hint_level =>
               CycleHintLevel \/ SetHintLevel \/ HintReset
      ]_vars

\* a hint asked for at a level other than the manager's, a boundary asked
\* for, and a cycle taken
C23_Witness ==
    /\ hint.present
    /\ hint.level = FULL_SENTENCE
    /\ hint_level = CURRENT_CHARACTER
    /\ cycled = CURRENT_CHARACTER
    /\ boundary # NoBoundary

-----------------------------------------------------------------------------
(* Practice sessions *)

\* number of whole words of t
WordCount(t) ==
    Cardinality({se \in (0..Len(t)) \X (0..Len(t)) :
                    WholeWord(t, se[1], se[2])})

\* C24: start_session(target_text) installs a running session that starts
\* now, with character_count = len(target_text), word_count = the number of
\* whitespace-delimited words of target_text, both counters 0 and no end
\* time, whatever session there was before.
C24_StartSession ==
    [][ StartSession =>
            /\ session'.present
            /\ _is_running'
            /\ session'.start_time = now
            /\ ~session'.ended
            /\ session'.character_count = Len(target_text)
            /\ session'.word_count = WordCount(target_text)
            /\ session'.error_count = 0
            /\ session'.hint_count = 0
      ]_vars

\* a session of two words started at the last second
C24_Witness ==
    /\ session.present
    /\ _is_running
    /\ session.start_time = MaxTime
    /\ session.word_count = 2
    /\ session.character_count = 3
    /\ session.error_count = 0
    /\ session.hint_count = 0
    /\ ~session.ended

\* C25: end_session records the clock as end_time and stops the collector
\* only when a session exists and is running, and changes nothing otherwise;
\* once a session has ended, end_session, the counters and the clock leave
\* its end_time and its duration_seconds as they are.
C25_EndSessionIdempotent ==
    [][ /\ EndSession =>
              IF session.present /\ _is_running
              THEN /\ session' = [session EXCEPT !.ended = TRUE,
                                                 !.end_time = now]
                   /\ ~_is_running'
              ELSE UNCHANGED <<session, _is_running>>
        /\ (/\ session.present
            /\ session.ended
            /\ EndSession \/ Tick \/ IncrementErrorCount
                  \/ IncrementHintCount) =>
              /\ session'.ended
              /\ session'.end_time = session.end_time
              /\ duration_seconds' = duration_seconds
      ]_vars

\* a session that ended after a second and has been over for a second
C25_Witness ==
    /\ session.present
    /\ session.ended
    /\ ~_is_running
    /\ session.start_time < session.end_time
    /\ session.end_time < now
    /\ duration_seconds = 1

\* C26: with a session, increment_error_count raises error_count by exactly
\* 1 and leaves hint_count, and increment_hint_count raises hint_count by
\* exactly 1 and leaves error_count; without a session both do nothing and
\* the counts read 0; a step that lowers a counter of a session is a
\* start_session or a reset step.
C26_Counters ==
    [][ /\ IncrementErrorCount =>
              IF session.present
              THEN /\ get_error_count' = get_error_count + 1
                   /\ get_hint_count' = get_hint_count
                   /\ session' = [session EXCEPT !.error_count = @ + 1]
              ELSE /\ UNCHANGED <<session, _is_running>>
                   /\ get_error_count' = 0
        /\ IncrementHintCount =>
              IF session.present
              THEN /\ get_hint_count' = get_hint_count + 1
                   /\ get_error_count' = get_error_count
                   /\ session' = [session EXCEPT !.hint_count = @ + 1]
              ELSE /\ UNCHANGED <<session, _is_running>>
                   /\ get_hint_count' = 0
        /\ (get_error_count' < get_error_count
               \/ get_hint_count' < get_hint_count) =>
              StartSession \/ StatsReset
      ]_vars

\* both counters raised in a session that has ended
C26_Witness ==
    /\ session.present
    /\ session.ended
    /\ session.error_count = MaxErrors
    /\ session.hint_count = 1

-----------------------------------------------------------------------------
(* Scores *)

\* the integer part of n / d for d > 0, towards zero
TruncDiv(n, d) == IF n >= 0 THEN n \div d ELSE 0 - ((0 - n) \div d)

\* accuracy*50 + min(30, (wpm/20)*30) - min(20, hint_count*5) in exact
\* arithmetic, truncated and clamped to 0..100, for a session s lasting d
\* seconds; the sum is taken over the denominator character_count * d
ExactScore(s, d) ==
    LET acc_den == IF s.character_count = 0 THEN 1 ELSE s.character_count
        acc_num == IF s.character_count = 0 THEN 1
                   ELSE Max2(0, s.character_count - s.error_count)
        spd_den == IF d <= 0 THEN 1 ELSE d
        spd_num == IF d <= 0 THEN 0 ELSE Min2(30 * d, 90 * s.word_count)
        penalty == Min2(20, s.hint_count * 5)
        total_num == 50 * acc_num * spd_den + spd_num * acc_den
                        - penalty * acc_den * spd_den
    IN  Max2(0, Min2(100, TruncDiv(total_num, acc_den * spd_den)))

\* C27 as stated: the score returned for a session is an integer from 0 to
\* 100, equal to accuracy*50 + min(30, (wpm/20)*30) - min(20, hint_count*5)
\* truncated and clamped, with accuracy = max(0, (character_count -
\* error_count)/character_count), 1 for no characters, and wpm = 0 for a
\* duration of 0 or less.
C27_ScoreFormula ==
    (score.present /\ session.present) =>
        /\ score.value \in 0..100
        /\ score.value = ExactScore(session, duration_seconds)

-----------------------------------------------------------------------------
(* Ratings *)

Again == 1
Hard == 2
Good == 3
Easy == 4

\* C28: the rating of practice statistics is one of 1..4 and follows the
\* decision table's first matching row: no errors and no hints give Easy
\* from score 90, Good from score 80, Hard below; otherwise at most 2 errors
\* and at most 1 hint give Good; otherwise at most 5 errors give Hard;
\* otherwise Again.
C28_RatingTable ==
    (rating.present /\ practice_stats.present) =>
        LET e == practice_stats.error_count
            h == practice_stats.hint_count
            sc == practice_stats.score
            perfect == e = 0 /\ h = 0
            minor == e <= 2 /\ h <= 1
        IN  /\ rating.value \in {Again, Hard, Good, Easy}
            /\ (perfect /\ sc >= 90) => rating.value = Easy
            /\ (perfect /\ sc >= 80 /\ sc < 90) => rating.value = Good
            /\ (perfect /\ sc < 80) => rating.value = Hard
            /\ (~perfect /\ minor) => rating.value = Good
            /\ (~perfect /\ ~minor /\ e <= 5) => rating.value = Hard
            /\ (~perfect /\ ~minor /\ e > 5) => rating.value = Again

\* statistics of 3 errors and no hint were rated Hard
C28_Witness ==
    /\ practice_stats.present
    /\ practice_stats.error_count = 3
    /\ practice_stats.hint_count = 0
    /\ rating = Returned(Hard)

-----------------------------------------------------------------------------
(* Accuracy of the engine *)

\* x is a float nearest to n / d, for 0 < n <= d: its 53 digits m and its
\* exponent e have |m * 2^e - n / d| at most half a unit of the last digit
NearestTo(x, n, d) ==
    /\ x.m # <<>>
    /\ BitLen(x.m) = MANT_BITS
    /\ x.e <= 0
    /\ LET scaled == BigMul(x.m, Digits(d))
           exact == ShiftLeft(Digits(n), 0 - x.e)
           diff == IF BigLess(scaled, exact) THEN BigSub(exact, scaled)
                   ELSE BigSub(scaled, exact)
       IN  ~BigLess(Digits(d), BigMulSmall(diff, 2))

\* C29: get_accuracy returns 1.0 at position 0 whatever the error count, and
\* otherwise max(0, (current_position - error_count) / (current_position +
\* error_count)); the value is between 0 and 1; and the call changes no field
\* of the engine.  (A call that returns what the last call returned leaves
\* the state as it was.)
C29_Accuracy ==
    [][ (returned_accuracy' # returned_accuracy /\ GetAccuracy) =>
          LET v == returned_accuracy'.value
              correct == current_position - error_count
              total == current_position + error_count
          IN  /\ current_position = 0 => v = FromInt(1)
              /\ (current_position > 0 /\ correct <= 0) => v = FZero
              /\ (current_position > 0 /\ correct > 0) =>
                     NearestTo(v, correct, total)
              /\ ~FLess(FromInt(1), v)
              /\ v = FZero \/ FLess(FZero, v)
              /\ UNCHANGED engine ]_vars

\* the accuracy 1/3 was returned at position 2 after 1 error
C29_Witness ==
    /\ returned_accuracy.present
    /\ current_position = 2
    /\ error_count = 1
    /\ NearestTo(returned_accuracy.value, 1, 3)

-----------------------------------------------------------------------------
(* Giving up *)

\* C30 as stated: when Give Up is confirmed while a session is running, the
\* rating handed to the scheduler is Again (1), whatever the session's error
\* count, hint count and score: a rating handed over by the step is Again.
C30_GiveUpIsAgain ==
    [][ (GiveUp /\ _is_running) =>
            (submitted' = submitted \/ submitted' = Returned(Again)) ]_vars

-----------------------------------------------------------------------------
(* Word starts of the hint manager and of the engine *)

\* C31 as stated: for every index i inside a word of the text, the start
\* that get_current_word_boundary(i) returns is the position to which
\* reset('word') rewinds the engine standing at i + 1.
C31_SameWordStart ==
    [][ (/\ current_position > 0
         /\ ~IsSpace(target_text[current_position])
         /\ ResetWord) =>
            current_position' =
                get_current_word_boundary(current_position - 1)[1] ]_vars

-----------------------------------------------------------------------------
(* Position and typed text *)

\* C32: in every state the engine reaches through process_input, reset (both
\* modes) and set_target_text, current_position is between 0 and the length
\* of the target and typed_text is the first current_position characters of
\* the target.
C32_TypedPrefix ==
    /\ current_position \in 0..Len(target_text)
    /\ Len(typed_text) = current_position
    /\ typed_text = SubSeq(target_text, 1, current_position)

\* process_input has been called, one wrong key among the calls, and the
\* engine stands behind the first character of a text of three
C32_Witness ==
    /\ result.present
    /\ current_position = 1
    /\ typed_text = <<target_text[1]>>
    /\ Len(target_text) > 2
    /\ error_count > 0
    /\ characters[2] = CURRENT
    /\ characters[3] = UNDEFINED

-----------------------------------------------------------------------------
(* The scores a session can have, and their ratings *)

\* C33: calculate_score never returns more than 80, so the rating that
\* _finish_practice computes from a session's own statistics is never Easy,
\* and for a session without errors and hints it is Good when the score is
\* exactly 80 and Hard otherwise.
C33_ScoreAtMost80 ==
    /\ score.present => score.value <= 80
    /\ (practice_stats.present /\ rating.present) =>
          /\ practice_stats.score <= 80
          /\ rating.value # Easy
          /\ (practice_stats.error_count = 0 /\ practice_stats.hint_count = 0) =>
                rating.value = IF practice_stats.score = 80 THEN Good ELSE Hard

\* a practice without errors and hints, fast enough for the full speed term,
\* was finished with score 80 and rated Good
C33_Witness ==
    /\ practice_stats.present
    /\ practice_stats.error_count = 0
    /\ practice_stats.hint_count = 0
    /\ practice_stats.time_seconds = 1
    /\ practice_stats.score = 80
    /\ rating = Returned(Good)
    /\ ~session.present

-----------------------------------------------------------------------------
(* Ratings and hints *)

\* C34: the rating does not fall with the use of hints: statistics without
\* errors and with exactly one hint are rated Good for every score, while
\* statistics without errors and without hints are rated Hard when the score
\* is below 80.
C34_OneHintRatesHigher ==
    (rating.present /\ practice_stats.present
        /\ practice_stats.error_count = 0) =>
        /\ practice_stats.hint_count = 1 => rating.value = Good
        /\ (practice_stats.hint_count = 0 /\ practice_stats.score < 80) =>
              rating.value = Hard

\* statistics without errors, with one hint and a score below 80, were rated
\* Good
C34_Witness ==
    /\ practice_stats.present
    /\ practice_stats.error_count = 0
    /\ practice_stats.hint_count = 1
    /\ practice_stats.score = 79
    /\ rating = Returned(Good)

-----------------------------------------------------------------------------
(* The collector's running flag and its defaults *)

\* is_running() is true exactly when a session exists and has no end_time
RunningIsOpenSession == is_running <=> (session.present /\ ~session.ended)

\* C35: before and after every start_session, end_session,
\* increment_error_count, increment_hint_count and reset, is_running() is true
\* exactly when a session exists and its end_time is unset; after reset no
\* session exists and the queries return their defaults: error count 0, hint
\* count 0, elapsed time 0, accuracy 1.0 and score 0.
C35_RunningFlag ==
    [][ /\ RunningIsOpenSession
        /\ RunningIsOpenSession'
        /\ StatsReset =>
              /\ ~session'.present
              /\ ~is_running'
              /\ get_error_count' = 0
              /\ get_hint_count' = 0
              /\ get_elapsed_time' = 0
              /\ collector_get_accuracy' = FromInt(1)
              /\ calculate_final_score' = 0
      ]_vars

\* a session with an error and a hint, started after the clock's first
\* second, is still running
C35_Witness ==
    /\ is_running
    /\ session.present
    /\ ~session.ended
    /\ session.start_time = 1
    /\ now = MaxTime
    /\ session.error_count = 1
    /\ session.hint_count = 1

-----------------------------------------------------------------------------
(* The input processor applied to one keystroke text and one expected text, *)
(* under every configuration of the flags it reads                          *)

\* a, A, ".", "(" and " ", and nothing
UserParts == {<<>>, <<97>>, <<UPPER_A>>, <<PERIOD>>, <<LPAREN>>, <<SPACE>>}

\* a, ".", "(", ")" and " ", and nothing
ExpectedParts == {<<>>, <<97>>, <<PERIOD>>, <<LPAREN>>, <<RPAREN>>, <<SPACE>>}

UserInputs == {x \o y : x, y \in UserParts}

ExpectedTexts == {x \o y : x, y \in ExpectedParts}

InputInit ==
    /\ engine_init(<<>>)
    /\ hint_init(<<>>)
    /\ stats_init
    /\ review_init
    /\ dialog_init
    /\ field_processor_init
    /\ input_config \in InputConfigs
    /\ user_input \in UserInputs
    /\ expected_text \in ExpectedTexts
    /\ processed = NoProcessed

\* one call of InputProcessor.process_input
ProcessInputText ==
    /\ UNCHANGED <<engine_and_result, hint_manager, stats_collector, review,
                   dialog, field_processor, input_config, user_input,
                   expected_text>>
    /\ processed' = InputProcessor_process_input(input_config, user_input,
                                                 expected_text)

InputNext == ProcessInputText

SpecInput == InputInit /\ [][InputNext]_vars

\* C36: whatever the keystroke text, the expected text and the flags,
\* process_input answers should_accept = true; the flags change only the
\* returned text and the note.
C36_AlwaysAccepts == processed.present => processed.should_accept

\* with the punctuation tolerance on and the automatic punctuation off, the
\* text "A" typed where "a." is expected is neither tolerated as a
\* punctuation difference nor a white-space difference, and is returned as
\* it is, accepted, with an empty note
C36_Witness ==
    /\ processed.present
    /\ input_config.handle_punctuation
    /\ input_config.ignore_punctuation_errors
    /\ ~input_config.auto_punctuation
    /\ input_config.case_sensitive
    /\ user_input = <<UPPER_A>>
    /\ expected_text = <<97, PERIOD>>
    /\ processed.processed_input = user_input
    /\ processed.status_message.text = ""
    /\ processed.should_accept

-----------------------------------------------------------------------------
(* The field processor applied to one field content of at most three parts, *)
(* under the default configuration and the ones that differ from it in one  *)
(* flag                                                                     *)

\* "a", "b", " ", a line break, "<br>", "<BR/>", "</p>", "<p>", "<b>",
\* "</b>", "<", "&lt;" and nothing
FieldParts ==
    {<<>>, <<97>>, <<98>>, <<SPACE>>, <<NEWLINE>>, <<LT>> \o br \o <<GT>>,
     <<LT, 66, 82, 47, GT>>, <<LT, 47, 112, GT>>, <<LT, 112, GT>>,
     <<LT, 98, GT>>, <<LT, 47, 98, GT>>, <<LT>>,
     <<AMPERSAND>> \o lt \o <<59>>}

FieldContents == {x \o y \o z : x, y, z \in FieldParts}

ProcessingConfigs ==
    {ProcessingConfig} \cup
    {[ProcessingConfig EXCEPT ![flag] = ~ProcessingConfig[flag]] :
        flag \in DOMAIN ProcessingConfig}

FieldInit ==
    /\ engine_init(<<>>)
    /\ hint_init(<<>>)
    /\ stats_init
    /\ review_init
    /\ dialog_init
    /\ input_processor_init
    /\ processing_config \in ProcessingConfigs
    /\ field_content \in FieldContents
    /\ cleaned = NoText

\* one call of FieldProcessor.process_field_content
ProcessFieldContent ==
    /\ UNCHANGED <<engine_and_result, hint_manager, stats_collector, review,
                   dialog, input_processor, processing_config, field_content>>
    /\ cleaned' = Text(process_field_content(processing_config, field_content))

FieldNext == ProcessFieldContent

SpecField == FieldInit /\ [][FieldNext]_vars

\* the line breaks and paragraph ends of HTML
LineBreakTags ==
    {<<LT>> \o br \o <<GT>>, <<LT, 66, 82, 47, GT>>, <<LT, 47, 112, GT>>}

\* C39 as stated: under the default ProcessingConfig a line break or a
\* paragraph end of HTML between two words keeps the words apart in the
\* cleaned text: 'a<br>b' gives 'a b'.
C39_BreakKeepsWordsApart ==
    \A tag \in LineBreakTags :
        (/\ processing_config = ProcessingConfig
         /\ field_content = <<97>> \o tag \o <<98>>
         /\ cleaned.present)
            => cleaned.value = <<97, SPACE, 98>>

-----------------------------------------------------------------------------
(* The dialog: ui/typing_dialog.py, with its engine, its hint manager and   *)
(* its statistics.  The completion popup is shown; it runs an event loop,   *)
(* so _finish_practice is entered in one step and left in another, and a    *)
(* handler called in between finds _finishing set.  The clock stands still *)
(* and every card has the same target.                                      *)

MaxCards == 2

\* the target of every card: "a"
DialogTargets == {<<97>>}

\* the texts of the key events: a, b, Backspace, and a key without text
DialogKeys == {<<97>>, <<98>>, <<BACKSPACE>>, <<>>}

\* text and text.isprintable(), for the characters of ASCII
isprintable(text) ==
    /\ text # <<>>
    /\ \A i \in 1..Len(text) : text[i] \in 32..126

\* HintManager(t), a new manager that has returned nothing yet
HintManager(t) ==
    /\ hint_target_text' = t
    /\ hint_level' = NONE
    /\ _word_boundaries' = _find_word_boundaries(t)
    /\ hint' = NoHint
    /\ cycled' = PY_NONE
    /\ boundary' = NoBoundary

\* TypingEngine(t), a new engine that has returned nothing yet
TypingEngine(t) ==
    /\ target_text' = t
    /\ _reset_state(t)
    /\ result' = NoResult

\* TypingDialog._load_current_card for a card with the target t: the
\* statistics are reset, the engine and the hint manager are built anew
_load_current_card(t) ==
    /\ card_id' = card_id + 1
    /\ stats_reset
    /\ TypingEngine(t)
    /\ HintManager(t)
    /\ is_practice_active' = TRUE
    /\ key_seen' = FALSE

\* variant: the hint counter stands still when the level is clamped
_show_hint_CountsLevels ==
    /\ IF hint_level = FULL_SENTENCE
       THEN UNCHANGED <<session, _is_running>>
       ELSE increment_hint_count
    /\ cycle_hint_level
    /\ get_hint(current_position, hint_level')

\* TypingDialog._show_hint
_show_hint ==
    /\ increment_hint_count
    /\ cycle_hint_level
    /\ get_hint(current_position, hint_level')

\* TypingDialog._reset_practice
_reset_practice(mode) ==
    /\ reset(mode)
    /\ hint_reset
    /\ start_session(target_text)

\* variant: no guard against a call while another is in its popup
_finish_practice_enter_Unguarded(s, running) ==
    IF ~running
    THEN /\ session' = s
         /\ _is_running' = running
         /\ UNCHANGED <<_finishing, popup, score, practice_stats, rating,
                        answers, submitted>>
    ELSE \E ended \in {[s EXCEPT !.ended = TRUE, !.end_time = now]} :
         \E stats \in {PracticeStats(ended.end_time - ended.start_time,
                                     ended.error_count, ended.hint_count,
                                     calculate_score(ended, ended.end_time
                                                            - ended.start_time))} :
             /\ session' = ended
             /\ _is_running' = FALSE
             /\ _finishing' = TRUE
             /\ popup' = TRUE
             /\ score' = Returned(stats.score)
             /\ practice_stats' = stats
             /\ rating' = Returned(_calculate_rating(stats))
             /\ UNCHANGED <<answers, submitted>>

\* TypingDialog._finish_practice from its entry to its completion popup, for
\* the session s and the flag running that the caller leaves in the collector;
\* nothing is submitted here
_finish_practice_enter(s, running) ==
    IF _finishing \/ ~running
    THEN /\ session' = s
         /\ _is_running' = running
         /\ UNCHANGED <<_finishing, popup, score, practice_stats, rating,
                        answers, submitted>>
    ELSE \E ended \in {[s EXCEPT !.ended = TRUE, !.end_time = now]} :
         \E stats \in {PracticeStats(ended.end_time - ended.start_time,
                                     ended.error_count, ended.hint_count,
                                     calculate_score(ended, ended.end_time
                                                            - ended.start_time))} :
             /\ session' = ended
             /\ _is_running' = FALSE
             /\ _finishing' = TRUE
             /\ popup' = TRUE
             /\ score' = Returned(stats.score)
             /\ practice_stats' = stats
             /\ rating' = Returned(_calculate_rating(stats))
             /\ UNCHANGED <<answers, submitted>>

\* TypingDialog._finish_practice from the end of its popup on: the rating is
\* handed to the scheduler for the card the reviewer shows, and the next card,
\* with the target t, is loaded; the score, the statistics and the rating are
\* locals of the call and end with it
_finish_practice_leave(t) ==
    /\ \E reviewer_active \in BOOLEAN :
          IF reviewer_active
          THEN /\ answers' = Append(answers, card_id)
               /\ submitted' = rating
          ELSE UNCHANGED <<answers, submitted>>
    /\ _load_current_card(t)
    /\ score' = NoValue
    /\ practice_stats' = NoPracticeStats
    /\ rating' = NoValue
    /\ _finishing' = FALSE
    /\ popup' = FALSE

\* TypingDialog._next_card for a next card with the target t
_next_card(t) ==
    /\ \E reviewer_active \in BOOLEAN :
          IF reviewer_active
          THEN /\ answers' = Append(answers, card_id)
               /\ submitted' = Returned(Again)
          ELSE UNCHANGED <<answers, submitted>>
    /\ _load_current_card(t)

\* TypingDialog.keyPressEvent for a key event with the text key; started is
\* the session after the start on the first key press, counted the session
\* after the error of this key, if any
keyPressEvent(key) ==
    IF ~is_practice_active
    THEN UNCHANGED <<engine_and_result, stats_collector, review, dialog>>
    ELSE \E started \in {IF _is_running THEN session
                         ELSE PracticeSession(now, Len(target_text),
                                              split_count(target_text))} :
         /\ key_seen' = TRUE
         /\ UNCHANGED <<now, returned_accuracy, card_id, target_text, fed,
                        erased>>
         /\ IF key # <<BACKSPACE>> /\ ~isprintable(key)
            THEN /\ session' = started
                 /\ _is_running' = TRUE
                 /\ UNCHANGED <<typed_text, current_position, error_count,
                                is_complete, characters, result, score,
                                practice_stats, rating, submitted,
                                is_practice_active, _finishing, answers, popup>>
            ELSE /\ process_input(key)
                 /\ \E counted \in {IF result'.error_occurred
                                    THEN [started EXCEPT !.error_count = @ + 1]
                                    ELSE started} :
                        IF result'.is_complete
                        THEN /\ is_practice_active' = FALSE
                             /\ _finish_practice_enter(counted, TRUE)
                        ELSE /\ session' = counted
                             /\ _is_running' = TRUE
                             /\ UNCHANGED <<score, practice_stats, rating,
                                            submitted, is_practice_active,
                                            _finishing, answers, popup>>

DialogInit ==
    /\ target_text \in DialogTargets
    /\ engine_init(target_text)
    /\ hint_init(target_text)
    /\ stats_init
    /\ review_init
    /\ dialog_init
    /\ utils_init

KeyPress ==
    \E key \in DialogKeys :
        /\ UNCHANGED <<hint_manager, utils>>
        /\ keyPressEvent(key)

ShowHint ==
    /\ UNCHANGED <<now, engine_and_result, hint_target_text, _word_boundaries,
                   boundary, review, dialog, utils>>
    /\ _show_hint

ResetPractice ==
    \E mode \in {"sentence", "word"} :
        /\ UNCHANGED <<now, target_text, fed, erased, hint_target_text,
                       _word_boundaries, hint, cycled, boundary, review, dialog,
                       utils>>
        /\ _reset_practice(mode)

\* the Give Up button, answered Yes
GiveUpPractice ==
    /\ UNCHANGED <<now, engine_and_result, hint_manager, returned_accuracy,
                   is_practice_active, card_id, key_seen, utils>>
    /\ _finish_practice_enter(session, _is_running)

\* the completion popup is closed
ClosePopup ==
    /\ popup
    /\ card_id < MaxCards
    /\ UNCHANGED <<now, fed, erased, returned_accuracy, utils>>
    /\ \E t \in DialogTargets : _finish_practice_leave(t)

NextCard ==
    /\ card_id < MaxCards
    /\ UNCHANGED <<now, fed, erased, score, practice_stats, rating,
                   returned_accuracy, _finishing, popup, utils>>
    /\ \E t \in DialogTargets : _next_card(t)

DialogNext ==
    \/ KeyPress
    \/ ShowHint
    \/ ResetPractice
    \/ GiveUpPractice
    \/ ClosePopup
    \/ NextCard

SpecDialog == DialogInit /\ [][DialogNext]_vars

-----------------------------------------------------------------------------
(* The hints the dialog counts and the cards it submits *)

\* the level after a Show Hint request
LevelAfter(level) ==
    CASE level = NONE -> CURRENT_CHARACTER
      [] level = CURRENT_CHARACTER -> CURRENT_WORD
      [] level = CURRENT_WORD -> FULL_SENTENCE
      [] level = FULL_SENTENCE -> FULL_SENTENCE

\* C37 as stated: a Show Hint request made after a card is loaded and before
\* its first keystroke advances the hint level and displays the hint without
\* being counted.
C37_UncountedBeforeFirstKey ==
    [][(~key_seen /\ UNCHANGED <<dialog, engine_and_result>> /\ ShowHint) =>
          /\ hint_level' = LevelAfter(hint_level)
          /\ hint'.present
          /\ get_hint_count' = get_hint_count]_vars

\* C37 amended: a Show Hint request made while no session exists, which is
\* after a card is loaded and before its first keystroke or Reset, advances
\* the hint level and displays the hint without being counted; the session
\* that the first keystroke or a Reset creates starts with hint_count = 0;
\* every Show Hint request made while a session exists adds 1 to its
\* hint_count, also when the level is already clamped at Sentence.
C37_CountedWithinSession ==
    [][/\ (UNCHANGED <<dialog, engine_and_result>> /\ ShowHint) =>
             /\ hint_level' = LevelAfter(hint_level)
             /\ ~session.present => (~session'.present /\ hint'.present)
             /\ session.present =>
                   session'.hint_count = session.hint_count + 1
       /\ (~_is_running /\ _is_running') => session'.hint_count = 0]_vars

\* the level was at Sentence before the first keystroke, and a request made
\* in the session, which left it there, is counted
C37_Witness ==
    /\ session.present
    /\ ~session.ended
    /\ key_seen
    /\ session.hint_count = 1
    /\ hint_level = FULL_SENTENCE
    /\ hint.present
    /\ hint.level = FULL_SENTENCE
    /\ current_position = 0
    /\ error_count = 0

\* no card is in answers twice
SubmittedOnce ==
    \A i, j \in DOMAIN answers : i # j => answers[i] # answers[j]

\* C38: a card is submitted to the scheduler at most once, each submission
\* being followed by the load of another card; a keystroke that completes the
\* text clears is_practice_active before _finish_practice is entered; while
\* is_practice_active is clear no key event reaches the engine, whose text
\* changes only by a Reset or with the card; _finish_practice is entered only
\* with a session that was running; and while one _finish_practice is in
\* progress a Give Up or a completion computes nothing, submits nothing and
\* ends no session.
C38_SubmittedOncePerCard ==
    [][/\ SubmittedOnce'
       /\ Len(answers') <= Len(answers) + 1
       /\ answers' # answers => card_id' = card_id + 1
       /\ (~is_complete /\ is_complete') => ~is_practice_active'
       /\ (~is_practice_active /\ card_id' = card_id
              /\ <<typed_text, error_count, result>>'
                     # <<typed_text, error_count, result>>) => ResetPractice
       /\ (~popup /\ popup') =>
             (~_finishing /\ session'.present /\ session'.ended)
       /\ (_finishing /\ card_id' = card_id) =>
             /\ UNCHANGED <<answers, submitted, score, practice_stats, rating,
                            popup, _finishing>>
             /\ _is_running => _is_running']_vars

\* the first card was submitted once; the second is complete by a keystroke
\* and its _finish_practice waits in the popup
C38_Witness ==
    /\ card_id = 1
    /\ answers = <<0>>
    /\ popup
    /\ _finishing
    /\ is_complete
    /\ ~is_practice_active
    /\ session.ended

====
